---------------------------- MODULE Spec2Model ----------------------------
(***************************************************************************)
(* Schedule evaluation core of asphalt-tasks: the four schedule variants   *)
(* (date, interval, calendar interval, cron), their get_next_run_time and  *)
(* the get_run_times iteration that drives them.                           *)
(*                                                                         *)
(* Time is modelled as the program sees it.  A naive datetime is a number  *)
(* of wall-clock seconds since 1970-01-01T00:00:00, a date is a number of  *)
(* days since 1970-01-01, and a timezone-aware datetime is a record        *)
(* [naive, off, us]: the wall clock it shows, the UTC offset of its tzinfo *)
(* and its microsecond (pytz attaches a fixed-offset tzinfo to every aware *)
(* datetime, so a datetime can show a wall clock that its zone never had   *)
(* until it is normalized).  Aware datetimes compare by the instant        *)
(* naive - off, then by microsecond.                                       *)
(* An optional value is <<>> (None) or <<x>>.                              *)
(***************************************************************************)
EXTENDS Integers, Sequences, FiniteSets, TLC

None == <<>>
Some(x) == <<x>>

\* a local variable: x is evaluated once and handed to F
Let(x, F(_)) == CHOOSE r \in {F(v) : v \in {x}} : TRUE

Max(a, b) == IF a >= b THEN a ELSE b
Min(a, b) == IF a <= b THEN a ELSE b

(***************************************************************************)
(* The proleptic Gregorian calendar of datetime.date / calendar.monthrange *)
(***************************************************************************)
IsLeap(y) == (y % 4 = 0 /\ y % 100 # 0) \/ y % 400 = 0

DaysInMonth(y, m) ==
    IF m = 2 THEN (IF IsLeap(y) THEN 29 ELSE 28)
    ELSE IF m \in {4, 6, 9, 11} THEN 30 ELSE 31

\* date(year, month, day) succeeds; otherwise it raises ValueError
ValidDate(y, m, d) ==
    /\ y \in 1..9999
    /\ m \in 1..12
    /\ d >= 1 /\ d <= DaysInMonth(y, m)

\* days from 1970-01-01 to the valid date (y, m, d)
ToOrdinal(y, m, d) ==
    Let(IF m <= 2 THEN y - 1 ELSE y, LAMBDA yy :
    Let(yy \div 400, LAMBDA era :
    Let(yy - era * 400, LAMBDA yoe :
    Let(IF m > 2 THEN m - 3 ELSE m + 9, LAMBDA mp :
    Let((153 * mp + 2) \div 5 + d - 1, LAMBDA doy :
        era * 146097 + (yoe * 365 + yoe \div 4 - yoe \div 100 + doy) - 719468)))))

\* the date, as [year, month, day], that lies n days after 1970-01-01
FromOrdinal(n) ==
    Let(n + 719468, LAMBDA z :
    Let(z \div 146097, LAMBDA era :
    Let(z - era * 146097, LAMBDA doe :
    Let((doe - doe \div 1460 + doe \div 36524 - doe \div 146096) \div 365, LAMBDA yoe :
    Let(doe - (365 * yoe + yoe \div 4 - yoe \div 100), LAMBDA doy :
    Let((5 * doy + 2) \div 153, LAMBDA mp :
    Let(IF mp < 10 THEN mp + 3 ELSE mp - 9, LAMBDA m :
        [year  |-> yoe + era * 400 + (IF m <= 2 THEN 1 ELSE 0),
         month |-> m,
         day   |-> doy - (153 * mp + 2) \div 5 + 1])))))))

\* date.weekday(): Monday is 0 (1970-01-01 was a Thursday)
Weekday(n) == (n + 3) % 7

\* date.isocalendar()[1]: the ISO week holding day n
IsoWeek(n) ==
    Let(n - Weekday(n) + 3, LAMBDA thursday :
    Let(FromOrdinal(thursday).year, LAMBDA y :
        (thursday - ToOrdinal(y, 1, 1)) \div 7 + 1))

\* datetime(year, month, day, hour, minute, second) as wall-clock seconds
Naive(y, m, d, h, mi, s) == ToOrdinal(y, m, d) * 86400 + h * 3600 + mi * 60 + s

DateOf(n)   == n \div 86400
YearOf(n)   == FromOrdinal(DateOf(n)).year
MonthOf(n)  == FromOrdinal(DateOf(n)).month
DayOf(n)    == FromOrdinal(DateOf(n)).day
HourOf(n)   == (n % 86400) \div 3600
MinuteOf(n) == (n % 3600) \div 60
SecondOf(n) == n % 60

(***************************************************************************)
(* The timezone of the schedules: Europe/Berlin, as pytz resolves it.      *)
(* Summer time runs from the last Sunday of March, 01:00 UTC, to the last  *)
(* Sunday of October, 01:00 UTC.                                           *)
(***************************************************************************)
StdOffset == 3600
DstOffset == 7200

LastSunday(y, m) ==
    Let(ToOrdinal(y, m, 31), LAMBDA last : last - ((Weekday(last) + 1) % 7))

DstStartUtc(y) == LastSunday(y, 3) * 86400 + 3600
DstEndUtc(y)   == LastSunday(y, 10) * 86400 + 3600

\* the offset in force at the UTC time u
UtcOffset(u) ==
    Let(u, LAMBDA t :
    Let(YearOf(t), LAMBDA y :
        IF y >= 1996 /\ t >= DstStartUtc(y) /\ t < DstEndUtc(y)
        THEN DstOffset ELSE StdOffset))

AwareUs(n, o, us) == [naive |-> n, off |-> o, us |-> us]
Aware(n, o) == AwareUs(n, o, 0)
Instant(dt) == dt.naive - dt.off

\* comparison operators of aware datetimes
Before(a, b) ==
    Instant(a) < Instant(b) \/ (Instant(a) = Instant(b) /\ a.us < b.us)
SameTime(a, b) == Instant(a) = Instant(b) /\ a.us = b.us
NotAfter(a, b) == Before(a, b) \/ SameTime(a, b)
\* max(a, b): the first argument unless the second is greater
MaxTime(a, b)  == IF Before(a, b) THEN b ELSE a

\* a datetime that shows the wall clock its zone has at its instant
Normalized(dt) == UtcOffset(Instant(dt)) = dt.off

\* timezone.normalize(dt)
Normalize(dt) ==
    Let(dt, LAMBDA t :
    Let(UtcOffset(Instant(t)), LAMBDA o : AwareUs(Instant(t) + o, o, t.us)))

\* the offsets under which the wall clock n is a real local time
PossibleOffsets(n) ==
    Let(n, LAMBDA w : {o \in {StdOffset, DstOffset} : UtcOffset(w - o) = o})

IsGap(n)     == PossibleOffsets(n) = {}
IsOverlap(n) == Cardinality(PossibleOffsets(n)) = 2

\* timezone.localize(n, is_dst) with is_dst TRUE or FALSE: never fails
Localize(n, is_dst) ==
    Let(n, LAMBDA w :
    Let(PossibleOffsets(w), LAMBDA p :
        IF Cardinality(p) = 1
        THEN Aware(w, CHOOSE o \in p : TRUE)
        ELSE Aware(w, IF is_dst THEN DstOffset ELSE StdOffset)))

\* timezone.localize(n, is_dst=None): the datetime, or the exception raised
LocalizeStrict(n) ==
    Let(n, LAMBDA w :
        IF IsGap(w)
        THEN [status |-> "NonExistentTimeError", dt |-> Aware(w, StdOffset)]
        ELSE IF IsOverlap(w)
        THEN [status |-> "AmbiguousTimeError", dt |-> Aware(w, StdOffset)]
        ELSE [status |-> "ok", dt |-> Localize(w, FALSE)])

\* timedelta added to an aware datetime: wall clock moves, tzinfo stays
AddSeconds(dt, delta) == AwareUs(dt.naive + delta, dt.off, dt.us)

\* dt.astimezone(timezone): the same instant on the zone's wall clock
AsTimezone(dt) == Normalize(dt)

\* a rounding that drops the microseconds
datetime_floor(timeval) ==
    Let(timeval, LAMBDA t : AwareUs(t.naive, t.off, 0))

\* util.datetime_ceil: round upwards to the nearest full second
datetime_ceil(timeval) ==
    Let(timeval, LAMBDA t :
        IF t.us = 0 THEN t ELSE AwareUs(t.naive + 1, t.off, 0))

\* Berlin wall clock to aware datetime; dst picks the pass of a repeated hour
Berlin(y, m, d, h, mi, s) == Localize(Naive(y, m, d, h, mi, s), FALSE)
BerlinDst(y, m, d, h, mi, s) == Localize(Naive(y, m, d, h, mi, s), TRUE)

(***************************************************************************)
(* Schedules.  One record shape for the four variants; a variant leaves    *)
(* the attributes of the others at their blank values.                     *)
(***************************************************************************)
BlankSchedule ==
    [kind |-> "none", run_time |-> None, start_time |-> None, end_time |-> None,
     interval |-> 0, years |-> 0, months |-> 0, weeks |-> 0, days |-> 0,
     time |-> 0, start_date |-> 0, end_date |-> None, fields |-> <<>>]

\* DateSchedule.__init__
DateSchedule(run_time) ==
    [BlankSchedule EXCEPT !.kind = "date", !.run_time = Some(run_time)]

\* IntervalSchedule.__init__ (interval: the timedelta in seconds)
IntervalSchedule(seconds, start_time, end_time) ==
    [BlankSchedule EXCEPT !.kind = "interval", !.interval = seconds,
                          !.start_time = start_time, !.end_time = end_time]

\* CalendarIntervalSchedule.__init__ (time: seconds into the day)
CalendarIntervalSchedule(years, months, weeks, days, hour, minute, second, start_date, end_date) ==
    [BlankSchedule EXCEPT !.kind = "calendarinterval",
                          !.years = years, !.months = months,
                          !.weeks = weeks, !.days = days,
                          !.time = hour * 3600 + minute * 60 + second,
                          !.start_date = start_date, !.end_date = end_date]

(***************************************************************************)
(* DateSchedule.get_next_run_time                                          *)
(***************************************************************************)
\* a date schedule that forgets it has already run
DateGetNextRunTimeAgain(s, now_, prev) == s.run_time

DateGetNextRunTime(s, now_, prev) ==
    IF prev = None THEN s.run_time ELSE None

(***************************************************************************)
(* IntervalSchedule.get_next_run_time                                      *)
(***************************************************************************)
IntervalCandidate(s, now_, prev) ==
    IF prev # None THEN AddSeconds(prev[1], s.interval)
    ELSE IF s.start_time # None THEN MaxTime(now_, s.start_time[1])
    ELSE now_

\* an end_time that excludes the end instant itself
IntervalPastEndInclusive(s, next_fire_time) ==
    s.end_time # None /\ NotAfter(s.end_time[1], next_fire_time)

IntervalPastEnd(s, next_fire_time) ==
    s.end_time # None /\ Before(s.end_time[1], next_fire_time)

\* a result that keeps the UTC offset of the datetime it was computed from
IntervalGetNextRunTimeUnnormalized(s, now_, prev) ==
    LET next_fire_time == IntervalCandidate(s, now_, prev)
    IN  IF IntervalPastEnd(s, next_fire_time) THEN None
        ELSE Some(next_fire_time)

IntervalGetNextRunTime(s, now_, prev) ==
    LET next_fire_time == IntervalCandidate(s, now_, prev)
    IN  IF IntervalPastEnd(s, next_fire_time) THEN None
        ELSE Some(Normalize(next_fire_time))

(***************************************************************************)
(* CalendarIntervalSchedule.get_next_run_time, in the pieces of its loop   *)
(***************************************************************************)
\* the starting point of the calculations (a date, or None)
CalStartingPoint(s, now_, prev) ==
    LET today == DateOf(now_.naive)
    IN  IF prev # None THEN Some(DateOf(prev[1].naive))
        ELSE IF today > s.start_date THEN Some(s.start_date)
        ELSE None

\* an advance that falls back to the last day of a shorter month
CalAdvanceClamped(s, year, month, day) ==
    LET m1 == month + s.months
        y1 == year + s.years + m1 \div 12
        m2 == m1 % 12
        d1 == IF m2 \in 1..12 THEN Min(day, DaysInMonth(y1, m2)) ELSE day
    IN  [year |-> y1, month |-> m2,
         next_date |-> IF ValidDate(y1, m2, d1)
                       THEN Some(ToOrdinal(y1, m2, d1) + s.days + s.weeks * 7)
                       ELSE None]

\* one pass of the inner loop: add years and months, keep the day of month
CalAdvance(s, year, month, day) ==
    LET m1 == month + s.months
        y1 == year + s.years + m1 \div 12
        m2 == m1 % 12
    IN  [year |-> y1, month |-> m2,
         next_date |-> IF ValidDate(y1, m2, day)
                       THEN Some(ToOrdinal(y1, m2, day) + s.days + s.weeks * 7)
                       ELSE None]

CalPastEnd(s, next_date) ==
    s.end_date # None /\ next_date > s.end_date[1]

Return(v)  == [returns |-> TRUE, value |-> v]
Continue   == [returns |-> FALSE, value |-> None]

\* the two datetimes taken in the order (False, True) without sorting them
CalOnAmbiguousUnsorted(s, now_, n) ==
    LET times == <<Localize(n, FALSE), Localize(n, TRUE)>>
    IN  IF NotAfter(now_, times[1]) THEN Return(Some(times[1]))
        ELSE IF NotAfter(now_, times[2]) THEN Return(Some(times[2]))
        ELSE Continue

\* AmbiguousTimeError: the first of the two datetimes that is not before now
CalOnAmbiguous(s, now_, n) ==
    LET a == Localize(n, FALSE)
        b == Localize(n, TRUE)
        times == IF Before(b, a) THEN <<b, a>> ELSE <<a, b>>
    IN  IF NotAfter(now_, times[1]) THEN Return(Some(times[1]))
        ELSE IF NotAfter(now_, times[2]) THEN Return(Some(times[2]))
        ELSE Continue

\* a nonexistent time resolved with is_dst=False instead of skipped
CalOnNonExistentGuess(s, now_, n) == Return(Some(Localize(n, FALSE)))

\* NonExistentTimeError: nothing is returned for this date
CalOnNonExistent(s, now_, n) == Continue

\* a result returned without looking at now
CalOnLocalizedAnyTime(s, now_, prev, next_time) == Return(Some(next_time))

\* the datetime localized without an exception
CalOnLocalized(s, now_, prev, next_time) ==
    IF prev # None \/ NotAfter(now_, next_time) THEN Return(Some(next_time))
    ELSE Continue

\* from the end_date check to the bottom of the outer loop
CalCheck(s, now_, prev, next_date) ==
    IF CalPastEnd(s, next_date) THEN Return(None)
    ELSE LET n == next_date * 86400 + s.time
             l == LocalizeStrict(n)
         IN  IF l.status = "AmbiguousTimeError" THEN CalOnAmbiguous(s, now_, n)
             ELSE IF l.status = "NonExistentTimeError" THEN CalOnNonExistent(s, now_, n)
             ELSE CalOnLocalized(s, now_, prev, l.dt)

(***************************************************************************)
(* Cron expressions (cron/expressions.py).  One record shape for the five  *)
(* expression kinds.                                                       *)
(***************************************************************************)
BlankExpression ==
    [type |-> "none", step |-> None, first |-> 0, last |-> None,
     option_num |-> 0, weekday |-> 0]

\* AllExpression.__init__
AllExpression(step) ==
    [BlankExpression EXCEPT !.type = "all", !.step = step]

\* RangeExpression.__init__: a bare value n is the range n-n
RangeExpression(first, last, step) ==
    [BlankExpression EXCEPT !.type = "range", !.first = first, !.step = step,
         !.last = IF last = None /\ step = None THEN Some(first) ELSE last]

\* WeekdayRangeExpression.__init__, the weekday names already looked up
WeekdayRangeExpression(first, last) ==
    [RangeExpression(first, last, None) EXCEPT !.type = "weekdayrange"]

\* WeekdayPositionExpression.__init__: option_num 0..4 is 1st..5th, 5 is last
WeekdayPositionExpression(option_num, weekday) ==
    [BlankExpression EXCEPT !.type = "weekdayposition",
                            !.option_num = option_num, !.weekday = weekday]

LastDayOfMonthExpression == [BlankExpression EXCEPT !.type = "last"]

(***************************************************************************)
(* Cron fields (cron/fields.py)                                            *)
(***************************************************************************)
FieldNames ==
    <<"year", "month", "week", "day", "day_of_week", "hour", "minute", "second">>

\* the largest year a datetime can hold is 9999, far below MAX_VALUES['year']
\* = 2 ** 63; the model keeps the largest integer it can represent
YearMax == 2147483647

\* Numbers past the integers of the checker, as their decimal digits, the
\* least significant first.
RECURSIVE DoubleFrom(_, _, _)
DoubleFrom(d, i, carry) ==
    IF i > Len(d) THEN (IF carry = 0 THEN <<>> ELSE <<carry>>)
    ELSE <<(2 * d[i] + carry) % 10>> \o DoubleFrom(d, i + 1, (2 * d[i] + carry) \div 10)

\* 2 ** n
RECURSIVE PowerOfTwo(_)
PowerOfTwo(n) ==
    IF n = 0 THEN <<1>>
    ELSE CHOOSE r \in {DoubleFrom(d, 1, 0) : d \in {PowerOfTwo(n - 1)}} : TRUE

\* MAX_VALUES['year'] = 2 ** 63, in full
YearMaxDigits == PowerOfTwo(63)

MIN_VALUES ==
    [year |-> 1970, month |-> 1, day |-> 1, week |-> 1, day_of_week |-> 0,
     hour |-> 0, minute |-> 0, second |-> 0]

MAX_VALUES ==
    [year |-> YearMax, month |-> 12, week |-> 53, day_of_week |-> 6,
     hour |-> 23, minute |-> 59, second |-> 59]

\* BaseField.real, overridden by WeekField and DayOfWeekField
FieldReal(name) == name \notin {"week", "day_of_week"}

\* BaseField.get_min
FieldMin(field, dateval) == MIN_VALUES[field.name]

\* a get_max without the override of DayOfMonthField: 31 days in every month
FieldMaxBase(field, dateval) ==
    IF field.name = "day" THEN 31 ELSE MAX_VALUES[field.name]

\* BaseField.get_max, overridden by DayOfMonthField
FieldMax(field, dateval) ==
    IF field.name = "day"
    THEN DaysInMonth(YearOf(dateval.naive), MonthOf(dateval.naive))
    ELSE MAX_VALUES[field.name]

\* BaseField.get_value, overridden by WeekField and DayOfWeekField
FieldValue(field, dateval) ==
    LET n == dateval.naive
    IN  CASE field.name = "year"        -> YearOf(n)
          [] field.name = "month"       -> MonthOf(n)
          [] field.name = "week"        -> IsoWeek(DateOf(n))
          [] field.name = "day"         -> DayOf(n)
          [] field.name = "day_of_week" -> Weekday(DateOf(n))
          [] field.name = "hour"        -> HourOf(n)
          [] field.name = "minute"      -> MinuteOf(n)
          [] field.name = "second"      -> SecondOf(n)

\* AllExpression.get_next_value
AllNextValue(e, dateval, field) ==
    LET minval == FieldMin(field, dateval)
        maxval == FieldMax(field, dateval)
        start  == Max(FieldValue(field, dateval), minval)
        next   == IF e.step # None /\ e.step[1] # 0
                  THEN start + ((e.step[1] - (start - minval)) % e.step[1])
                  ELSE start
    IN  IF next <= maxval THEN Some(next) ELSE None

\* a range that takes no notice of its step
RangeNextValueEveryValue(e, dateval, field) ==
    LET maxval  == IF e.last # None
                   THEN Min(FieldMax(field, dateval), e.last[1])
                   ELSE FieldMax(field, dateval)
        nextval == Max(Max(FieldMin(field, dateval), e.first), FieldValue(field, dateval))
    IN  IF nextval <= maxval THEN Some(nextval) ELSE None

\* RangeExpression.get_next_value (inherited by WeekdayRangeExpression)
RangeNextValue(e, dateval, field) ==
    LET startval == FieldValue(field, dateval)
        minval   == Max(FieldMin(field, dateval), e.first)
        maxval   == IF e.last # None
                    THEN Min(FieldMax(field, dateval), e.last[1])
                    ELSE FieldMax(field, dateval)
        nextval0 == Max(minval, startval)
        nextval  == IF e.step # None /\ e.step[1] # 0
                    THEN nextval0 + ((e.step[1] - (nextval0 - minval)) % e.step[1])
                    ELSE nextval0
    IN  IF nextval <= maxval THEN Some(nextval) ELSE None

\* a weekday position that also gives a day that has passed
WeekdayPositionNextValuePassed(e, dateval, field) ==
    LET y == YearOf(dateval.naive)
        m == MonthOf(dateval.naive)
        hit0           == e.weekday - Weekday(ToOrdinal(y, m, 1)) + 1
        first_hit_day  == IF hit0 <= 0 THEN hit0 + 7 ELSE hit0
        target_day     == IF e.option_num < 5
                          THEN first_hit_day + e.option_num * 7
                          ELSE first_hit_day
                                   + ((DaysInMonth(y, m) - first_hit_day) \div 7) * 7
    IN  IF DaysInMonth(y, m) >= target_day THEN Some(target_day) ELSE None

\* WeekdayPositionExpression.get_next_value
WeekdayPositionNextValue(e, dateval, field) ==
    LET y == YearOf(dateval.naive)
        m == MonthOf(dateval.naive)
        first_day_wday == Weekday(ToOrdinal(y, m, 1))
        last_day       == DaysInMonth(y, m)
        hit0           == e.weekday - first_day_wday + 1
        first_hit_day  == IF hit0 <= 0 THEN hit0 + 7 ELSE hit0
        target_day     == IF e.option_num < 5
                          THEN first_hit_day + e.option_num * 7
                          ELSE first_hit_day + ((last_day - first_hit_day) \div 7) * 7
    IN  IF last_day >= target_day /\ target_day >= DayOf(dateval.naive)
        THEN Some(target_day) ELSE None

\* a last day that is the 30th whatever the month
LastDayNextValueThirtieth(e, dateval, field) == Some(30)

\* LastDayOfMonthExpression.get_next_value
LastDayNextValue(e, dateval, field) ==
    Some(DaysInMonth(YearOf(dateval.naive), MonthOf(dateval.naive)))

\* expr.get_next_value(dateval, field), by the class of the expression
ExprNextValue(e, dateval, field) ==
    CASE e.type = "all"             -> AllNextValue(e, dateval, field)
      [] e.type = "range"           -> RangeNextValue(e, dateval, field)
      [] e.type = "weekdayrange"    -> RangeNextValue(e, dateval, field)
      [] e.type = "weekdayposition" -> WeekdayPositionNextValue(e, dateval, field)
      [] e.type = "last"            -> LastDayNextValue(e, dateval, field)

\* a get_next_value that asks the first expression only
FieldNextValueFirst(field, dateval) ==
    ExprNextValue(field.expressions[1], dateval, field)

\* BaseField.get_next_value: the least of the expressions' next values
FieldNextValue(field, dateval) ==
    LET values == {ExprNextValue(field.expressions[k], dateval, field) :
                       k \in 1..Len(field.expressions)} \ {None}
    IN  IF values = {} THEN None
        ELSE CHOOSE v \in values : \A w \in values : v[1] <= w[1]

\* DEFAULT_VALUES, each as the expression list it compiles to
DEFAULT_VALUES ==
    [year        |-> <<AllExpression(None)>>,
     month       |-> <<RangeExpression(1, None, None)>>,
     day         |-> <<RangeExpression(1, None, None)>>,
     week        |-> <<AllExpression(None)>>,
     day_of_week |-> <<AllExpression(None)>>,
     hour        |-> <<RangeExpression(0, None, None)>>,
     minute      |-> <<RangeExpression(0, None, None)>>,
     second      |-> <<RangeExpression(0, None, None)>>]

Field(name, exprs, is_default) ==
    [name |-> name, real |-> FieldReal(name), is_default |-> is_default,
     expressions |-> exprs]

\* CronSchedule._create_fields: field_values maps each field name to None
\* or to the list of its expressions
RECURSIVE CreateFieldsFrom(_, _, _)
CreateFieldsFrom(field_values, k, assign_defaults) ==
    IF k > Len(FieldNames) THEN <<>>
    ELSE LET key == FieldNames[k]
         IN  IF field_values[key] # None
             THEN <<Field(key, field_values[key][1], FALSE)>>
                  \o CreateFieldsFrom(field_values, k + 1, TRUE)
             ELSE <<Field(key, IF assign_defaults THEN DEFAULT_VALUES[key]
                                ELSE <<AllExpression(None)>>, TRUE)>>
                  \o CreateFieldsFrom(field_values, k + 1, assign_defaults)

\* fields that take their defaults from the first one on
_create_fields_defaults(field_values) == CreateFieldsFrom(field_values, 1, TRUE)

_create_fields(field_values) == CreateFieldsFrom(field_values, 1, FALSE)

NoFieldValues ==
    [year |-> None, month |-> None, week |-> None, day |-> None,
     day_of_week |-> None, hour |-> None, minute |-> None, second |-> None]

\* CronSchedule.__init__
CronSchedule(field_values, start_time, end_time) ==
    [BlankSchedule EXCEPT !.kind = "cron", !.start_time = start_time,
                          !.end_time = end_time,
                          !.fields = _create_fields(field_values)]

(***************************************************************************)
(* CronSchedule: the field walk                                            *)
(***************************************************************************)
\* self.fields[i] for a Python index i (a negative index counts from the end)
FieldAt(fields, i) == fields[(IF i < 0 THEN i + Len(fields) ELSE i) + 1]

NoValues ==
    [year |-> 0, month |-> 0, day |-> 0, hour |-> 0, minute |-> 0, second |-> 0]

\* datetime(**values) succeeds; otherwise it raises ValueError
ValidValues(v) ==
    /\ ValidDate(v.year, v.month, v.day)
    /\ v.hour \in 0..23 /\ v.minute \in 0..59 /\ v.second \in 0..59

NaiveOf(v) == Naive(v.year, v.month, v.day, v.hour, v.minute, v.second)

\* The loops below hand each pass its values through a bound variable, so
\* that a pass is computed once however often its result is read.

\* one pass of the while loop of _increment_field_value: the values, the
\* index i and fieldnum after it
IncrementPass(fields, dateval, values, i, fieldnum) ==
    LET field == FieldAt(fields, i)
    IN  IF ~field.real
        THEN IF i = fieldnum
             THEN <<values, i - 1, fieldnum - 1>>
             ELSE <<values, i + 1, fieldnum>>
        ELSE IF i < fieldnum
        THEN <<[values EXCEPT ![field.name] = FieldValue(field, dateval)],
               i + 1, fieldnum>>
        ELSE IF i > fieldnum
        THEN <<[values EXCEPT ![field.name] = FieldMin(field, dateval)],
               i + 1, fieldnum>>
        ELSE IF FieldValue(field, dateval) = FieldMax(field, dateval)
        THEN <<values, i - 1, fieldnum - 1>>
        ELSE <<[values EXCEPT ![field.name] = FieldValue(field, dateval) + 1],
               i + 1, fieldnum>>

\* the while loop of _increment_field_value: the values and the field number
RECURSIVE IncrementLoop(_, _, _, _, _)
IncrementLoop(fields, dateval, values, i, fieldnum) ==
    IF i >= Len(fields) THEN [values |-> values, fieldnum |-> fieldnum]
    ELSE CHOOSE r \in {IncrementLoop(fields, dateval, p[1], p[2], p[3]) :
                          p \in {IncrementPass(fields, dateval, values, i, fieldnum)}} :
             TRUE

\* CronSchedule._increment_field_value: the new datetime and the number of
\* the field that was incremented, or the ValueError of datetime(**values)
_increment_field_value(fields, dateval, fieldnum) ==
    CHOOSE res \in
        {IF ~ValidValues(r.values)
         THEN [raised |-> TRUE, dateval |-> dateval, fieldnum |-> r.fieldnum]
         ELSE LET \* whole seconds; the subtraction also takes the microsecond off
                  difference == NaiveOf(r.values) - dateval.naive
              IN  [raised |-> FALSE,
                   dateval |-> Normalize(AwareUs(dateval.naive + difference,
                                                 dateval.off, 0)),
                   fieldnum |-> r.fieldnum] :
            r \in {IncrementLoop(fields, dateval, NoValues, 0, fieldnum)}} : TRUE

\* the values dictionary built by _set_field_value
RECURSIVE SetLoop(_, _, _, _, _, _)
SetLoop(fields, dateval, values, i, fieldnum, new_value) ==
    IF i >= Len(fields) THEN values
    ELSE LET field == FieldAt(fields, i)
             v == IF i < fieldnum THEN FieldValue(field, dateval)
                  ELSE IF i > fieldnum THEN FieldMin(field, dateval)
                  ELSE new_value
         IN  CHOOSE r \in {SetLoop(fields, dateval, p, i + 1, fieldnum, new_value) :
                 p \in {IF field.real THEN [values EXCEPT ![field.name] = v]
                        ELSE values}} : TRUE

\* a _set_field_value that takes the summer time of a repeated wall clock
_set_field_value_dst(fields, dateval, fieldnum, new_value) ==
    CHOOSE res \in
        {IF ~ValidValues(values)
         THEN [raised |-> TRUE, dateval |-> dateval]
         ELSE [raised |-> FALSE, dateval |-> Localize(NaiveOf(values), TRUE)] :
            values \in {SetLoop(fields, dateval, NoValues, 0, fieldnum, new_value)}} :
        TRUE

\* CronSchedule._set_field_value: localized with the default is_dst=False
_set_field_value(fields, dateval, fieldnum, new_value) ==
    CHOOSE res \in
        {IF ~ValidValues(values)
         THEN [raised |-> TRUE, dateval |-> dateval]
         ELSE [raised |-> FALSE, dateval |-> Localize(NaiveOf(values), FALSE)] :
            values \in {SetLoop(fields, dateval, NoValues, 0, fieldnum, new_value)}} :
        TRUE

\* a walk that starts at previous_run_time itself
CronInitialNoSecond(s, now_, prev) ==
    LET start_time == IF prev # None THEN prev[1]
                      ELSE IF s.start_time # None THEN MaxTime(now_, s.start_time[1])
                      ELSE now_
    IN  AsTimezone(datetime_ceil(start_time))

\* the start of the walk: the cursor before the while loop
CronInitial(s, now_, prev) ==
    LET start_time == IF prev # None THEN AddSeconds(prev[1], 1)
                      ELSE IF s.start_time # None THEN MaxTime(now_, s.start_time[1])
                      ELSE now_
    IN  AsTimezone(datetime_ceil(start_time))

\* a walk that never looks at end_time
CronPastEndNever(s, next_time) == FALSE

CronPastEnd(s, next_time) ==
    s.end_time # None /\ Before(s.end_time[1], next_time)

\* what one pass of the while loop does to the cursor and the field number
CronMove(s, next_time, fieldnum) ==
    LET field      == FieldAt(s.fields, fieldnum)
        curr_value == FieldValue(field, next_time)
    IN  CHOOSE res \in
            {IF next_value = None
             THEN _increment_field_value(s.fields, next_time, fieldnum - 1)
             ELSE IF next_value[1] > curr_value
             THEN IF field.real
                  THEN [raised |-> FALSE, fieldnum |-> fieldnum + 1] @@
                       _set_field_value(s.fields, next_time, fieldnum, next_value[1])
                  ELSE _increment_field_value(s.fields, next_time, fieldnum)
             ELSE [raised |-> FALSE, dateval |-> next_time, fieldnum |-> fieldnum + 1] :
                next_value \in {FieldNextValue(field, next_time)}} : TRUE

\* one pass of the while loop: the new cursor and field number, whether the
\* pass returned None, and whether it raised
CronStep(s, next_time, fieldnum) ==
    CHOOSE res \in
        {[raised    |-> moved.raised,
          next_time |-> moved.dateval,
          fieldnum  |-> moved.fieldnum,
          returns   |-> ~moved.raised /\ CronPastEnd(s, moved.dateval)] :
            moved \in {CronMove(s, next_time, fieldnum)}} : TRUE

\* a return statement that hands out the cursor wherever the loop was left
CronResultCursor(next_time, fieldnum) == Some(next_time)

\* the return statement after the loop
CronResult(next_time, fieldnum) ==
    IF fieldnum >= 0 THEN Some(next_time) ELSE None

(***************************************************************************)
(* The schedules and the calls explored.  A scenario is a schedule with    *)
(* the now and previous_run_time handed to get_run_times.                  *)
(***************************************************************************)
MaxRunTimes == 8       \* longest get_run_times sequence followed
MaxYear == 2030        \* the loops are not followed past this year

Scenario(s, now_, prev) == [sched |-> s, now |-> now_, prev |-> prev]

DateFixture == DateSchedule(Berlin(2016, 7, 23, 21, 28, 13))

DateScenarios ==
    {Scenario(DateFixture, n, p) :
        n \in {Berlin(2016, 7, 18, 0, 0, 0), Berlin(2016, 7, 23, 21, 28, 13),
               Berlin(2016, 7, 31, 5, 17, 0)},
        p \in {None, Some(Berlin(2016, 7, 23, 21, 28, 13)),
               Some(Berlin(2016, 7, 1, 0, 0, 0))}}

IntervalFixture ==
    IntervalSchedule(125, Some(Berlin(2016, 7, 20, 16, 40, 0)),
                     Some(Berlin(2016, 12, 25, 6, 16, 0)))
IntervalUnbounded == IntervalSchedule(125, None, None)
IntervalSecond == IntervalSchedule(1, None, None)
IntervalStartOnly == IntervalSchedule(3600, Some(Berlin(2016, 7, 20, 16, 40, 0)), None)
IntervalEndOnly == IntervalSchedule(3600, None, Some(Berlin(2016, 12, 25, 6, 16, 0)))

IntervalCalls ==
    {<<Berlin(2016, 7, 18, 0, 0, 0), None>>,
     <<Berlin(2016, 7, 20, 16, 40, 0), None>>,
     <<Berlin(2016, 7, 20, 16, 40, 1), Some(Berlin(2016, 7, 20, 16, 40, 0))>>,
     <<Berlin(2016, 7, 20, 16, 43, 0), None>>,
     <<AwareUs(Naive(2016, 7, 20, 16, 43, 0), DstOffset, 500000), None>>,
     <<Berlin(2016, 7, 31, 5, 17, 0), Some(Berlin(2016, 7, 31, 5, 9, 55))>>,
     <<Berlin(2016, 3, 27, 1, 59, 0), Some(Berlin(2016, 3, 27, 1, 58, 0))>>,
     <<Berlin(2016, 3, 27, 3, 10, 0), Some(Berlin(2016, 3, 27, 1, 58, 0))>>,
     <<BerlinDst(2016, 10, 30, 2, 59, 0), Some(BerlinDst(2016, 10, 30, 2, 58, 0))>>,
     <<Berlin(2016, 10, 30, 2, 5, 0), Some(BerlinDst(2016, 10, 30, 2, 54, 0))>>,
     <<Berlin(2016, 12, 25, 6, 16, 0), None>>,
     <<Berlin(2016, 12, 25, 6, 20, 0), Some(Berlin(2016, 12, 25, 6, 11, 0))>>,
     <<Berlin(2020, 12, 31, 0, 0, 0), None>>}

IntervalScenarios ==
    {Scenario(s, c[1], c[2]) :
        s \in {IntervalFixture, IntervalUnbounded, IntervalStartOnly, IntervalEndOnly},
        c \in IntervalCalls}
    \cup {Scenario(s, c[1], c[2]) :
        s \in {IntervalStartOnly, IntervalEndOnly},
        c \in {<<Berlin(2016, 12, 25, 8, 0, 0), Some(Berlin(2016, 12, 25, 4, 16, 0))>>,
               <<Berlin(2016, 10, 30, 4, 0, 0), Some(BerlinDst(2016, 10, 30, 0, 30, 0))>>}}
    \cup {Scenario(IntervalSecond, c[1], c[2]) :
        c \in {<<Berlin(2016, 7, 23, 21, 28, 13), None>>,
               <<Berlin(2016, 7, 23, 21, 28, 13), Some(Berlin(2016, 7, 23, 21, 28, 10))>>,
               <<AwareUs(Naive(2016, 7, 23, 21, 28, 13), DstOffset, 250000),
                 Some(Berlin(2016, 7, 23, 21, 28, 10))>>}}

CalFixture ==
    CalendarIntervalSchedule(1, 5, 6, 8, 3, 0, 8, ToOrdinal(2016, 3, 5),
                             Some(ToOrdinal(2020, 12, 25)))
CalMissingTime ==
    CalendarIntervalSchedule(0, 0, 0, 1, 2, 30, 0, ToOrdinal(2016, 3, 26), None)
CalRepeatedTime ==
    CalendarIntervalSchedule(0, 0, 0, 2, 2, 30, 0, ToOrdinal(2016, 10, 30), None)
CalMonthEnd ==
    CalendarIntervalSchedule(0, 1, 0, 0, 0, 0, 0, ToOrdinal(2016, 3, 31), None)
CalMonthEndAutumn ==
    CalendarIntervalSchedule(0, 1, 0, 0, 0, 0, 0, ToOrdinal(2016, 8, 31),
                             Some(ToOrdinal(2017, 6, 30)))
CalQuarterly ==
    CalendarIntervalSchedule(0, 3, 1, 0, 6, 0, 0, ToOrdinal(2016, 5, 31),
                             Some(ToOrdinal(2017, 12, 31)))
CalLeapDay ==
    CalendarIntervalSchedule(1, 0, 0, 0, 12, 0, 0, ToOrdinal(2016, 2, 29),
                             Some(ToOrdinal(2024, 12, 31)))
CalDaily ==
    CalendarIntervalSchedule(0, 0, 0, 1, 12, 0, 0, ToOrdinal(2016, 11, 28), None)
CalWeeklyBounded ==
    CalendarIntervalSchedule(0, 0, 1, 0, 2, 30, 0, ToOrdinal(2016, 3, 13),
                             Some(ToOrdinal(2016, 4, 10)))
\* every twelve months
CalTwelveMonths ==
    CalendarIntervalSchedule(0, 12, 0, 0, 9, 0, 0, ToOrdinal(2016, 6, 15),
                             Some(ToOrdinal(2018, 12, 31)))

CalScenarios ==
    {Scenario(CalFixture, c[1], c[2]) :
        c \in {<<Berlin(2021, 7, 31, 5, 17, 0), Some(Berlin(2016, 3, 5, 3, 0, 8))>>,
               <<Berlin(2016, 1, 15, 0, 0, 0), None>>,
               <<Berlin(2016, 3, 5, 3, 0, 8), None>>,
               <<Berlin(2018, 1, 1, 0, 0, 0), None>>,
               <<Berlin(2020, 12, 31, 0, 0, 0), None>>}}
    \cup {Scenario(CalMissingTime, c[1], c[2]) :
        c \in {<<Berlin(2016, 3, 27, 0, 0, 0), None>>,
               <<Berlin(2016, 3, 26, 0, 0, 0), None>>,
               <<Berlin(2016, 3, 26, 2, 30, 0), None>>,
               <<Berlin(2016, 3, 27, 3, 30, 0), None>>,
               <<Berlin(2016, 3, 29, 12, 0, 0), Some(Berlin(2016, 3, 25, 2, 30, 0))>>,
               <<Berlin(2016, 3, 27, 12, 0, 0), Some(Berlin(2016, 3, 26, 2, 30, 0))>>}}
    \cup {Scenario(CalRepeatedTime, c[1], c[2]) :
        c \in {<<Berlin(2016, 10, 30, 0, 0, 0), None>>,
               <<BerlinDst(2016, 10, 30, 2, 30, 0), None>>,
               <<BerlinDst(2016, 10, 30, 2, 40, 0), None>>,
               <<Berlin(2016, 10, 30, 2, 30, 0), None>>,
               <<Berlin(2016, 10, 30, 2, 40, 0), None>>,
               <<Berlin(2016, 11, 2, 0, 0, 0), Some(Berlin(2016, 10, 28, 2, 30, 0))>>,
               <<BerlinDst(2016, 10, 30, 2, 40, 0), Some(Berlin(2016, 10, 28, 2, 30, 0))>>,
               <<Berlin(2016, 10, 30, 2, 45, 0), Some(Berlin(2016, 10, 28, 2, 30, 0))>>,
               <<Berlin(2016, 10, 30, 2, 10, 0), Some(BerlinDst(2016, 10, 30, 2, 30, 0))>>,
               <<Berlin(2016, 10, 29, 0, 0, 0), Some(Berlin(2016, 10, 28, 2, 30, 0))>>,
               <<Berlin(2016, 11, 3, 12, 0, 0), Some(Berlin(2016, 10, 28, 2, 30, 0))>>}}
    \cup {Scenario(CalMonthEnd, c[1], c[2]) :
        c \in {<<Berlin(2016, 4, 30, 0, 0, 0), None>>,
               <<Berlin(2016, 3, 1, 0, 0, 0), None>>,
               <<Berlin(2016, 7, 31, 0, 0, 0), Some(Berlin(2016, 3, 31, 0, 0, 0))>>}}
    \cup {Scenario(CalMonthEndAutumn, c[1], c[2]) :
        c \in {<<Berlin(2016, 9, 1, 0, 0, 0), None>>,
               <<Berlin(2016, 11, 1, 0, 0, 0), None>>,
               <<Berlin(2017, 4, 1, 0, 0, 0), Some(Berlin(2016, 8, 31, 0, 0, 0))>>,
               <<Berlin(2017, 8, 1, 0, 0, 0), Some(Berlin(2017, 3, 31, 0, 0, 0))>>}}
    \cup {Scenario(CalQuarterly, c[1], c[2]) :
        c \in {<<Berlin(2016, 6, 1, 0, 0, 0), None>>,
               <<Berlin(2018, 1, 1, 0, 0, 0), Some(Berlin(2016, 5, 31, 6, 0, 0))>>}}
    \cup {Scenario(CalLeapDay, c[1], c[2]) :
        c \in {<<Berlin(2016, 3, 1, 0, 0, 0), None>>,
               <<Berlin(2025, 1, 1, 0, 0, 0), Some(Berlin(2016, 2, 29, 12, 0, 0))>>}}
    \cup {Scenario(CalDaily, c[1], c[2]) :
        c \in {<<Berlin(2016, 11, 29, 13, 0, 0), None>>,
               <<Berlin(2016, 11, 30, 13, 0, 0), Some(Berlin(2016, 11, 28, 12, 0, 0))>>,
               <<Berlin(2016, 12, 2, 13, 0, 0), None>>,
               <<Berlin(2016, 12, 2, 13, 0, 0), Some(Berlin(2016, 11, 29, 12, 0, 0))>>}}
    \cup {Scenario(CalWeeklyBounded, c[1], c[2]) :
        c \in {<<Berlin(2016, 3, 20, 3, 0, 0), None>>,
               <<Berlin(2016, 5, 1, 0, 0, 0), Some(Berlin(2016, 3, 13, 2, 30, 0))>>,
               <<Berlin(2016, 4, 10, 3, 0, 0), None>>}}
    \cup {Scenario(CalTwelveMonths, c[1], c[2]) :
        c \in {<<Berlin(2016, 7, 1, 0, 0, 0), None>>,
               <<Berlin(2018, 1, 1, 0, 0, 0), Some(Berlin(2016, 6, 15, 9, 0, 0))>>}}

CronFixture ==
    CronSchedule([NoFieldValues EXCEPT
                      !.hour = Some(<<AllExpression(Some(2))>>),
                      !.minute = Some(<<RangeExpression(5, None, None)>>)],
                 Some(Berlin(2016, 7, 20, 16, 40, 0)),
                 Some(Berlin(2016, 12, 25, 6, 16, 0)))
CronEveryFive ==
    CronSchedule([NoFieldValues EXCEPT !.minute = Some(<<AllExpression(Some(5))>>)],
                 None, None)
CronDay30 ==
    CronSchedule([NoFieldValues EXCEPT !.day = Some(<<RangeExpression(30, None, None)>>)],
                 None, None)
CronDay8Friday ==
    CronSchedule([NoFieldValues EXCEPT
                      !.day = Some(<<RangeExpression(8, None, None)>>),
                      !.day_of_week = Some(<<WeekdayRangeExpression(4, None)>>)],
                 None, None)
CronFifthSunday ==
    CronSchedule([NoFieldValues EXCEPT
                      !.day = Some(<<WeekdayPositionExpression(4, 6)>>)], None, None)
CronLastMonday ==
    CronSchedule([NoFieldValues EXCEPT
                      !.day = Some(<<WeekdayPositionExpression(5, 0)>>)], None, None)
CronFirstWednesday ==
    CronSchedule([NoFieldValues EXCEPT
                      !.day = Some(<<WeekdayPositionExpression(0, 2)>>)], None, None)
CronLastDay ==
    CronSchedule([NoFieldValues EXCEPT !.day = Some(<<LastDayOfMonthExpression>>)],
                 None, None)
CronRangeStep ==
    CronSchedule([NoFieldValues EXCEPT
                      !.day = Some(<<RangeExpression(5, Some(24), Some(3))>>)],
                 None, None)
CronHalfPastTwo ==
    CronSchedule([NoFieldValues EXCEPT
                      !.hour = Some(<<RangeExpression(2, None, None)>>),
                      !.minute = Some(<<RangeExpression(30, None, None)>>)],
                 Some(Berlin(2016, 3, 1, 0, 0, 0)), Some(Berlin(2016, 11, 2, 0, 0, 0)))
\* the 20th and the 5th to the 7th of every month
CronTwoRanges ==
    CronSchedule([NoFieldValues EXCEPT
                      !.day = Some(<<RangeExpression(20, None, None),
                                     RangeExpression(5, Some(7), None)>>)],
                 None, None)
\* the first instant of the year 2016
CronYear2016 ==
    CronSchedule([NoFieldValues EXCEPT !.year = Some(<<RangeExpression(2016, None, None)>>)],
                 None, None)
\* the first five days of every month
CronFirstDays ==
    CronSchedule([NoFieldValues EXCEPT !.day = Some(<<RangeExpression(1, Some(5), None)>>)],
                 None, None)
\* every day of the ISO weeks 9 and 10
CronWeekNine ==
    CronSchedule([NoFieldValues EXCEPT
                      !.week = Some(<<RangeExpression(9, Some(10), None)>>),
                      !.day = Some(<<AllExpression(None)>>)],
                 None, Some(Berlin(2017, 12, 31, 0, 0, 0)))
CronWeek ==
    CronSchedule([NoFieldValues EXCEPT
                      !.week = Some(<<RangeExpression(10, Some(11), None)>>),
                      !.day_of_week = Some(<<RangeExpression(0, None, None),
                                             WeekdayRangeExpression(5, Some(6))>>)],
                 None, Some(Berlin(2017, 12, 31, 0, 0, 0)))

CronScenarios ==
    {Scenario(CronFixture, c[1], c[2]) :
        c \in {<<Berlin(2016, 7, 18, 0, 0, 0), None>>,
               <<Berlin(2016, 7, 20, 18, 5, 0), Some(Berlin(2016, 7, 20, 18, 5, 0))>>,
               <<Berlin(2016, 7, 20, 18, 5, 0), None>>,
               <<Berlin(2016, 7, 20, 20, 43, 0), None>>,
               <<Berlin(2016, 7, 21, 1, 0, 0), Some(Berlin(2016, 7, 20, 18, 5, 0))>>,
               <<Berlin(2016, 1, 15, 0, 0, 0), None>>,
               <<Berlin(2016, 12, 25, 9, 0, 0), Some(Berlin(2016, 12, 25, 2, 5, 0))>>,
               <<Berlin(2020, 12, 31, 0, 0, 0), None>>}}
    \cup {Scenario(CronEveryFive, c[1], c[2]) :
        c \in {<<Berlin(2016, 3, 27, 1, 59, 0), Some(Berlin(2016, 3, 27, 1, 55, 0))>>,
               <<Berlin(2016, 3, 27, 3, 12, 0), Some(Berlin(2016, 3, 27, 1, 50, 0))>>,
               <<BerlinDst(2016, 10, 30, 2, 59, 0), Some(BerlinDst(2016, 10, 30, 2, 55, 0))>>,
               <<Berlin(2016, 10, 30, 2, 11, 0), Some(BerlinDst(2016, 10, 30, 2, 50, 0))>>,
               <<Berlin(2016, 10, 30, 2, 11, 0), Some(BerlinDst(2016, 10, 30, 1, 55, 0))>>,
               <<Berlin(2016, 10, 30, 2, 11, 0), Some(Berlin(2016, 10, 30, 2, 5, 0))>>,
               <<AwareUs(Naive(2016, 7, 23, 21, 28, 13), DstOffset, 250000), None>>,
               <<Berlin(2016, 7, 23, 21, 30, 0), None>>,
               <<Berlin(2016, 12, 31, 23, 56, 0), None>>}}
    \cup {Scenario(CronDay30, c[1], c[2]) :
        c \in {<<Berlin(2016, 2, 1, 0, 0, 0), None>>,
               <<Berlin(2016, 7, 1, 0, 0, 0), Some(Berlin(2016, 1, 30, 0, 0, 0))>>}}
    \cup {Scenario(CronDay8Friday, c[1], c[2]) :
        c \in {<<Berlin(2016, 3, 1, 0, 0, 0), None>>}}
    \cup {Scenario(CronFifthSunday, c[1], c[2]) :
        c \in {<<Berlin(2016, 7, 1, 0, 0, 0), None>>,
               <<Berlin(2016, 8, 1, 0, 0, 0), None>>}}
    \cup {Scenario(CronLastMonday, c[1], c[2]) :
        c \in {<<Berlin(2016, 2, 1, 0, 0, 0), None>>,
               <<Berlin(2016, 3, 1, 0, 0, 0), None>>,
               <<Berlin(2016, 4, 1, 0, 0, 0), Some(Berlin(2016, 3, 28, 0, 0, 0))>>}}
    \cup {Scenario(CronFirstWednesday, c[1], c[2]) :
        c \in {<<Berlin(2016, 9, 1, 0, 0, 0), None>>,
               <<Berlin(2016, 9, 8, 0, 0, 0), None>>}}
    \cup {Scenario(CronLastDay, c[1], c[2]) :
        c \in {<<Berlin(2016, 1, 1, 0, 0, 0), None>>,
               <<Berlin(2016, 2, 1, 0, 0, 0), None>>,
               <<Berlin(2016, 4, 1, 0, 0, 0), None>>,
               <<Berlin(2016, 5, 1, 0, 0, 0), Some(Berlin(2016, 1, 31, 0, 0, 0))>>,
               <<Berlin(2016, 3, 10, 8, 30, 0), None>>,
               <<Berlin(2016, 4, 30, 0, 0, 0), None>>,
               <<Berlin(2016, 10, 10, 8, 30, 0), None>>}}
    \cup {Scenario(CronRangeStep, c[1], c[2]) :
        c \in {<<Berlin(2016, 3, 31, 0, 0, 0), Some(Berlin(2016, 2, 23, 0, 0, 0))>>}}
    \cup {Scenario(CronHalfPastTwo, c[1], c[2]) :
        c \in {<<Berlin(2016, 3, 27, 0, 0, 1), None>>,
               <<Berlin(2016, 3, 28, 12, 0, 0), Some(Berlin(2016, 3, 25, 2, 30, 0))>>,
               <<Berlin(2016, 10, 30, 0, 0, 1), None>>,
               <<BerlinDst(2016, 10, 30, 2, 10, 0), None>>,
               <<Berlin(2016, 10, 30, 2, 10, 0), None>>,
               <<Berlin(2016, 10, 31, 12, 0, 0), Some(Berlin(2016, 10, 28, 2, 30, 0))>>,
               <<Berlin(2016, 2, 1, 0, 0, 0), None>>,
               <<Berlin(2016, 11, 1, 12, 0, 0), None>>}}
    \cup {Scenario(CronWeek, c[1], c[2]) :
        c \in {<<Berlin(2016, 1, 1, 0, 0, 0), None>>,
               <<Berlin(2017, 6, 1, 0, 0, 0), Some(Berlin(2017, 3, 5, 0, 0, 0))>>}}
    \cup {Scenario(CronWeekNine, c[1], c[2]) :
        c \in {<<Berlin(2017, 2, 20, 0, 0, 0), None>>,
               <<Berlin(2017, 3, 6, 0, 0, 0), Some(Berlin(2017, 3, 1, 0, 0, 0))>>}}
    \cup {Scenario(CronFirstDays, c[1], c[2]) :
        c \in {<<Berlin(2016, 3, 10, 0, 0, 0), None>>,
               <<Berlin(2016, 10, 10, 0, 0, 0), None>>,
               <<Berlin(2016, 6, 10, 0, 0, 0), None>>}}
    \cup {Scenario(CronYear2016, c[1], c[2]) :
        c \in {<<Berlin(2015, 6, 1, 0, 0, 0), None>>,
               <<Berlin(2016, 2, 1, 0, 0, 0), None>>,
               <<Berlin(2017, 5, 5, 0, 0, 0), None>>,
               <<Berlin(2016, 2, 1, 0, 0, 0), Some(Berlin(2016, 1, 1, 0, 0, 0))>>}}
    \cup {Scenario(CronTwoRanges, c[1], c[2]) :
        c \in {<<Berlin(2016, 7, 1, 0, 0, 0), None>>,
               <<Berlin(2016, 7, 8, 0, 0, 0), Some(Berlin(2016, 7, 7, 0, 0, 0))>>,
               <<Berlin(2016, 7, 21, 0, 0, 0), Some(Berlin(2016, 7, 20, 0, 0, 0))>>}}

Scenarios == DateScenarios \cup IntervalScenarios \cup CalScenarios \cup CronScenarios

(***************************************************************************)
(* The state: one get_run_times iteration over one schedule.               *)
(***************************************************************************)
(***************************************************************************)
(* Construction and serialization: exceptions, arguments, state records    *)
(***************************************************************************)
\* args: the values a message is formatted with
NoError == [type |-> "none", message |-> "", cls |-> "", version |-> 0, args |-> <<>>]

\* an exception of the given class with the given message
Exception(type, message) == [NoError EXCEPT !.type = type, !.message = message]

\* the ValueError of the version check, with the two values it formats in
VersionError(cls, version) ==
    [Exception("ValueError", "cannot deserialize {} definition newer than version 1 (version {} received)")
        EXCEPT !.cls = cls, !.version = version]

\* self.__class__.__name__
ClassName(kind) ==
    CASE kind = "date"             -> "DateSchedule"
      [] kind = "interval"         -> "IntervalSchedule"
      [] kind = "calendarinterval" -> "CalendarIntervalSchedule"
      [] kind = "cron"             -> "CronSchedule"

\* the keyword arguments of the four constructors, each at its default;
\* today is what date.today() answers
NoArgs ==
    [kind |-> "none", run_time |-> None,
     weeks |-> 0, days |-> 0, hours |-> 0, minutes |-> 0, seconds |-> 0,
     years |-> 0, months |-> 0, hour |-> 0, minute |-> 0, second |-> 0,
     start_time |-> None, end_time |-> None,
     start_date |-> None, end_date |-> None, today |-> 0,
     field_values |-> NoFieldValues, misfire_grace_time |-> None]

\* a base constructor that takes any misfire_grace_time
MisfireGraceTimeInvalidNever(misfire_grace_time) == FALSE

\* BaseSchedule.__init__: misfire_grace_time is None or a positive integer
MisfireGraceTimeInvalid(misfire_grace_time) ==
    misfire_grace_time # None /\ misfire_grace_time[1] < 1

\* util.convert_to_datetime, for None and for timezone aware datetimes
convert_to_datetime(value) ==
    IF value = None THEN None ELSE Some(AsTimezone(value[1]))

\* timedelta(weeks=, days=, hours=, minutes=, seconds=).total_seconds()
total_seconds(a) ==
    a.weeks * 604800 + a.days * 86400 + a.hours * 3600 + a.minutes * 60 + a.seconds

\* an interval check that lets an empty interval pass
IntervalTooShortNegative(interval) == interval < 0

\* self.interval.total_seconds() < 1
IntervalTooShort(interval) == interval < 1

\* start_time and end_time and start_time > end_time, on the arguments
StartAfterEnd(start_time, end_time) ==
    start_time # None /\ end_time # None /\ Before(end_time[1], start_time[1])

\* a version check that lets version 2 pass
VersionTooNewTwo(version) == version > 2

\* state['version'] > 1
VersionTooNew(version) == version > 1

\* the keys a state record can hold; None stands for a key that is absent
NoState ==
    [version |-> 0, run_time |-> None, interval |-> None,
     start_time |-> None, end_time |-> None,
     start_date |-> None, end_date |-> None, time |-> None, fields |-> None]

\* util.datetime_to_utc_timestamp and datetime.timestamp(): the seconds since
\* the epoch in UTC, kept as whole seconds and microseconds
Timestamp(timeval) == [sec |-> Instant(timeval), us |-> timeval.us]

\* datetime.fromtimestamp(ts, self.timezone)
FromTimestamp(ts) == Normalize(AwareUs(ts.sec, 0, ts.us))

\* date.toordinal() of 1970-01-01
EpochOrdinal == 719163

\* date.toordinal(), dates being days since 1970-01-01
date_toordinal(d) == d + EpochOrdinal

\* a date read back one day late
date_fromordinal_late(n) == n - EpochOrdinal + 1

\* date.fromordinal()
date_fromordinal(n) == n - EpochOrdinal

\* time(hour, minute, second) as seconds into the day, and back
TimeOf(t) == t[1] * 3600 + t[2] * 60 + t[3]
TimeTuple(time) == <<time \div 3600, (time \div 60) % 60, time % 60>>

(***************************************************************************)
(* Cron expressions as text (cron/expressions.py __str__ and value_re).    *)
(* A text is kept as the groups the regular expressions find in it.        *)
(***************************************************************************)
WEEKDAYS == <<"mon", "tue", "wed", "thu", "fri", "sat", "sun">>

\* WEEKDAYS.index(name), -1 standing for its ValueError
WeekdayIndex(name) ==
    IF \E i \in 1..Len(WEEKDAYS) : WEEKDAYS[i] = name
    THEN (CHOOSE i \in 1..Len(WEEKDAYS) : WEEKDAYS[i] = name) - 1
    ELSE -1

BlankText ==
    [form |-> "", first |-> 0, last |-> None, step |-> None,
     first_name |-> "", last_name |-> "", option_num |-> 0, weekday_name |-> ""]

\* '*' and '*/step'
StarText(step) == [BlankText EXCEPT !.form = "*", !.step = step]
\* 'first', 'first-last', 'first/step' and 'first-last/step'
DigitsText(first, last, step) ==
    [BlankText EXCEPT !.form = "digits", !.first = first, !.last = last, !.step = step]
\* 'word' and 'word-word' ("" for no second word)
NamesText(first_name, last_name) ==
    [BlankText EXCEPT !.form = "names", !.first_name = first_name, !.last_name = last_name]
\* '1st word' .. '5th word' and 'last word' (option_num 0..5)
PositionText(option_num, weekday_name) ==
    [BlankText EXCEPT !.form = "position", !.option_num = option_num,
                      !.weekday_name = weekday_name]
\* 'last'
LastText == [BlankText EXCEPT !.form = "last"]

\* a step that is written out: if self.step
Truthy(step) == IF step # None /\ step[1] # 0 THEN step ELSE None

\* str(expression)
ExprStr(e) ==
    CASE e.type = "all" -> StarText(Truthy(e.step))
      [] e.type = "range" ->
             DigitsText(e.first,
                        IF e.last # None /\ e.last[1] # e.first THEN e.last ELSE None,
                        Truthy(e.step))
      [] e.type = "weekdayrange" ->
             NamesText(WEEKDAYS[e.first + 1],
                       IF e.last # None /\ e.last[1] # e.first
                       THEN WEEKDAYS[e.last[1] + 1] ELSE "")
      [] e.type = "weekdayposition" ->
             PositionText(e.option_num, WEEKDAYS[e.weekday + 1])
      [] e.type = "last" -> LastText

\* str(field): the texts of the expressions, joined by commas
FieldStr(field) == [k \in 1..Len(field.expressions) |-> ExprStr(field.expressions[k])]

\* compiler.value_re.match(expr): the patterns are matched at the start of
\* the text, and those of the weekday range and of 'last' also match a
\* text that goes on after them
Matches(compiler, text) ==
    CASE compiler = "all"             -> text.form = "*"
      [] compiler = "range"           -> text.form = "digits"
      [] compiler = "weekdayposition" -> text.form = "position"
      [] compiler = "last" ->
             text.form = "last" \/ (text.form = "position" /\ text.option_num = 5)
      [] compiler = "weekdayrange" ->
             \/ text.form \in {"names", "last"}
             \/ text.form = "position" /\ text.option_num = 5

\* the compilers of a field class, in their order
Compilers(name) ==
    IF name = "day" THEN <<"all", "range", "weekdayposition", "last">>
    ELSE IF name = "day_of_week" THEN <<"all", "range", "weekdayrange">>
    ELSE <<"all", "range">>

\* the first compiler of the field whose pattern matches, "" if none does
Compiler(name, text) ==
    LET cs == Compilers(name)
        hits == {i \in 1..Len(cs) : Matches(cs[i], text)}
    IN  IF hits = {} THEN ""
        ELSE cs[CHOOSE i \in hits : \A j \in hits : i <= j]

\* the groups first and last of the weekday range pattern
FirstName(text) == IF text.form = "names" THEN text.first_name ELSE "last"
LastName(text) == IF text.form = "names" THEN text.last_name ELSE ""

\* the ValueError compile_expression ends with, NoError if it returns
CompileError(name, text) ==
    LET c == Compiler(name, text)
    IN  IF c = ""
        THEN [Exception("ValueError", "unrecognized expression \"%s\" for field \"%s\"")
                 EXCEPT !.args = <<text, name>>]
        ELSE IF c = "all" /\ text.step = Some(0)
        THEN Exception("ValueError", "increment must be higher than 0")
        ELSE IF c = "range" /\ text.last # None /\ text.first > text.last[1]
        THEN Exception("ValueError", "the minimum value in a range must not be higher than the maximum")
        ELSE IF c = "weekdayrange" /\ WeekdayIndex(FirstName(text)) = -1
        THEN [Exception("ValueError", "invalid weekday name \"%s\"")
                 EXCEPT !.args = <<FirstName(text)>>]
        ELSE IF c = "weekdayrange" /\ LastName(text) # ""
                /\ WeekdayIndex(LastName(text)) = -1
        THEN [Exception("ValueError", "invalid weekday name \"%s\"")
                 EXCEPT !.args = <<LastName(text)>>]
        ELSE IF c = "weekdayrange" /\ LastName(text) # ""
                /\ WeekdayIndex(FirstName(text)) > WeekdayIndex(LastName(text))
        THEN Exception("ValueError", "the minimum value in a range must not be higher than the maximum")
        ELSE IF c = "weekdayposition" /\ WeekdayIndex(text.weekday_name) = -1
        THEN [Exception("ValueError", "invalid weekday name \"%s\"")
                 EXCEPT !.args = <<text.weekday_name>>]
        ELSE NoError

\* BaseField.compile_expression: the first compiler whose value_re matches
compile_expression(name, text) ==
    LET c == Compiler(name, text)
    IN  CASE c = "all"   -> AllExpression(text.step)
          [] c = "range" -> RangeExpression(text.first, text.last, text.step)
          [] c = "weekdayrange" ->
                 WeekdayRangeExpression(
                     WeekdayIndex(FirstName(text)),
                     IF LastName(text) # "" THEN Some(WeekdayIndex(LastName(text)))
                     ELSE None)
          [] c = "weekdayposition" ->
                 WeekdayPositionExpression(text.option_num, WeekdayIndex(text.weekday_name))
          [] c = "last" -> LastDayOfMonthExpression

\* the 'fields' entry of the state: the text of every field that is not a default
FieldTexts(fields) ==
    [n \in {FieldNames[k] : k \in 1..Len(FieldNames)} |->
        LET field == fields[CHOOSE k \in 1..Len(fields) : fields[k].name = n]
        IN  IF field.is_default THEN None ELSE Some(FieldStr(field))]

\* the ValueError that compiling the given texts ends with, the fields taken
\* in the order of FIELDS_MAP and the texts of a field from left to right;
\* NoError if they all compile
FieldTextError(texts) ==
    LET bad == {p \in (1..Len(FieldNames)) \X (1..4) :
                   /\ texts[FieldNames[p[1]]] # None
                   /\ p[2] <= Len(texts[FieldNames[p[1]]][1])
                   /\ CompileError(FieldNames[p[1]], texts[FieldNames[p[1]]][1][p[2]]) # NoError}
    IN  IF bad = {} THEN NoError
        ELSE LET p == CHOOSE q \in bad : \A r \in bad :
                          q[1] < r[1] \/ (q[1] = r[1] /\ q[2] <= r[2])
             IN  CompileError(FieldNames[p[1]], texts[FieldNames[p[1]]][1][p[2]])

\* the keyword arguments _create_fields gets from the texts
CompileFields(texts) ==
    [n \in DOMAIN texts |->
        IF texts[n] = None THEN None
        ELSE Some([k \in 1..Len(texts[n][1]) |-> compile_expression(n, texts[n][1][k])])]

(***************************************************************************)
(* Constructor arguments and record versions that are explored             *)
(***************************************************************************)
\* bounds, absent or set: a Berlin time and a UTC time with microseconds
LifeTimes ==
    {None, Some(Berlin(2016, 7, 18, 0, 0, 0)),
     Some(AwareUs(Naive(2016, 7, 23, 21, 28, 13), 0, 250000))}

LifeDates == {None, Some(ToOrdinal(2016, 7, 18)), Some(ToOrdinal(2016, 12, 31))}

\* the field texts explored: all omitted; minute='*/5'; day='last fri',
\* hour='2-4', minute=30; day_of_week='0,sat-sun', hour='8/4'; day='last',
\* hour='2-2/3'; then texts with something wrong in them
LifeFieldValues ==
    {NoFieldValues,
     [NoFieldValues EXCEPT !.minute = Some(<<StarText(Some(5))>>)],
     [NoFieldValues EXCEPT !.day = Some(<<PositionText(5, "fri")>>),
                           !.hour = Some(<<DigitsText(2, Some(4), None)>>),
                           !.minute = Some(<<DigitsText(30, None, None)>>)],
     [NoFieldValues EXCEPT !.day_of_week = Some(<<DigitsText(0, None, None),
                                                  NamesText("sat", "sun")>>),
                           !.hour = Some(<<DigitsText(8, None, Some(4))>>)],
     [NoFieldValues EXCEPT !.day = Some(<<LastText>>),
                           !.hour = Some(<<DigitsText(2, Some(2), Some(3))>>)],
     [NoFieldValues EXCEPT !.year = Some(<<StarText(Some(0))>>)],
     [NoFieldValues EXCEPT !.year = Some(<<DigitsText(2016, Some(2015), None)>>)],
     [NoFieldValues EXCEPT !.day_of_week = Some(<<NamesText("bleh", "")>>)],
     [NoFieldValues EXCEPT !.day_of_week = Some(<<NamesText("mon", "blah")>>)],
     [NoFieldValues EXCEPT !.day_of_week = Some(<<NamesText("fri", "mon")>>)],
     [NoFieldValues EXCEPT !.day_of_week = Some(<<PositionText(5, "fri")>>)],
     [NoFieldValues EXCEPT !.day = Some(<<PositionText(0, "bleh")>>)],
     [NoFieldValues EXCEPT !.day = Some(<<NamesText("bleh", "")>>)],
     [NoFieldValues EXCEPT !.hour = Some(<<DigitsText(5, None, None), LastText>>),
                           !.minute = Some(<<StarText(Some(0))>>)],
     [NoFieldValues EXCEPT !.minute = Some(<<DigitsText(5, Some(10), Some(0))>>)]}

LifeOwnArgs ==
    {[NoArgs EXCEPT !.kind = "date", !.run_time = t] : t \in LifeTimes \ {None}}
    \cup {[NoArgs EXCEPT !.kind = "interval", !.weeks = w, !.days = d, !.seconds = s,
                         !.start_time = st, !.end_time = en] :
             w \in {0, 1}, d \in {0, -7}, s \in {-1, 0, 1, 30},
             st \in LifeTimes, en \in LifeTimes}
    \cup {[NoArgs EXCEPT !.kind = "calendarinterval", !.years = y, !.months = mo,
                         !.days = d, !.hour = h, !.minute = h * 15,
                         !.start_date = sd, !.end_date = ed,
                         !.today = ToOrdinal(2016, 11, 5)] :
             y \in {0, 1}, mo \in {0, 1}, d \in {-1, 0, 2}, h \in {0, 2},
             sd \in LifeDates, ed \in LifeDates}
    \cup {[NoArgs EXCEPT !.kind = "cron", !.field_values = fv,
                         !.start_time = st, !.end_time = en] :
             fv \in LifeFieldValues, st \in LifeTimes, en \in LifeTimes}

\* each of them without misfire_grace_time, with 0 and with 1
LifeArgs ==
    {[a EXCEPT !.misfire_grace_time = g] : a \in LifeOwnArgs, g \in {None, Some(0), Some(1)}}

\* the versions a record handed to __setstate__ can carry
Versions == {1, 2, 3}

VARIABLES
    sched,              \* the schedule (self)
    now,                \* the now argument of get_run_times
    previous_run_time,  \* the previous_run_time of the current call (or None)
    pc,                 \* where the iteration stands
    result,             \* what the last get_next_run_time call returned
    run_times,          \* the fire-times get_run_times has produced so far
    previous_date,      \* CalendarInterval: previous_date (a date or None)
    year,               \* CalendarInterval: year of the inner loop
    month,              \* CalendarInterval: month of the inner loop
    next_date,          \* CalendarInterval: next_date (a date or None)
    next_time,          \* Cron: the cursor next_time
    fieldnum,           \* Cron: fieldnum
    args,               \* the arguments a constructor is called with
    state,              \* the record __getstate__ produced (or None)
    restored,           \* the instance __setstate__ is called on
    error               \* the exception that was raised (or NoError)

vars == <<sched, now, previous_run_time, pc, result, run_times,
          previous_date, year, month, next_date, next_time, fieldnum,
          args, state, restored, error>>

calVars == <<previous_date, year, month, next_date>>
cronVars == <<next_time, fieldnum>>
\* an evaluation that uses up the first fire-time of the schedule
AfterEvaluationConsumed(s) == [s EXCEPT !.run_time = None, !.start_time = None]

\* the schedule after a step of its evaluation: no statement of
\* get_next_run_time or of the methods it calls assigns an attribute of self,
\* of a field or of an expression
AfterEvaluation(s) == s

callVars == <<now, previous_run_time, run_times>>
lifeVars == <<args, state, restored, error>>

Init ==
    \E sc \in Scenarios :
        /\ sched = sc.sched
        /\ now = sc.now
        /\ previous_run_time = sc.prev
        /\ pc = "call"
        /\ result = None
        /\ run_times = <<>>
        /\ previous_date = None
        /\ year = 0
        /\ month = 0
        /\ next_date = None
        /\ next_time = sc.now
        /\ fieldnum = 0
        /\ args = NoArgs
        /\ state = None
        /\ restored = BlankSchedule
        /\ error = NoError

\* DateSchedule.get_next_run_time
DateCall ==
    /\ pc = "call"
    /\ sched.kind = "date"
    /\ result' = DateGetNextRunTime(sched, now, previous_run_time)
    /\ pc' = "returned"
    /\ UNCHANGED <<callVars, calVars, cronVars>>
    /\ sched' = AfterEvaluation(sched)
    /\ UNCHANGED lifeVars

\* IntervalSchedule.get_next_run_time
IntervalCall ==
    /\ pc = "call"
    /\ sched.kind = "interval"
    /\ result' = IntervalGetNextRunTime(sched, now, previous_run_time)
    /\ pc' = "returned"
    /\ UNCHANGED <<callVars, calVars, cronVars>>
    /\ sched' = AfterEvaluation(sched)
    /\ UNCHANGED lifeVars

\* CalendarIntervalSchedule.get_next_run_time: the starting point
CalBegin ==
    /\ pc = "call"
    /\ sched.kind = "calendarinterval"
    /\ previous_date' = CalStartingPoint(sched, now, previous_run_time)
    /\ pc' = "cal_loop"
    /\ UNCHANGED <<callVars, result, year, month, next_date, cronVars>>
    /\ sched' = AfterEvaluation(sched)
    /\ UNCHANGED lifeVars

\* top of the outer loop: enter the inner loop, or take start_date
CalLoop ==
    /\ pc = "cal_loop"
    /\ IF previous_date # None
       THEN /\ year' = FromOrdinal(previous_date[1]).year
            /\ month' = FromOrdinal(previous_date[1]).month
            /\ next_date' = None
            /\ pc' = "cal_advance"
       ELSE /\ next_date' = Some(sched.start_date)
            /\ pc' = "cal_check"
            /\ UNCHANGED <<year, month>>
    /\ UNCHANGED <<callVars, result, previous_date, cronVars>>
    /\ sched' = AfterEvaluation(sched)
    /\ UNCHANGED lifeVars

\* one pass of the inner loop
CalInner ==
    /\ pc = "cal_advance"
    /\ year <= MaxYear
    /\ \E a \in {CalAdvance(sched, year, month, FromOrdinal(previous_date[1]).day)} :
           /\ year' = a.year
           /\ month' = a.month
           /\ next_date' = a.next_date
           /\ pc' = IF a.next_date # None THEN "cal_check" ELSE "cal_advance"
    /\ UNCHANGED <<callVars, result, previous_date, cronVars>>
    /\ sched' = AfterEvaluation(sched)
    /\ UNCHANGED lifeVars

\* the rest of the outer loop: return, or go round with the candidate date
CalCheckStep ==
    /\ pc = "cal_check"
    /\ \E c \in {CalCheck(sched, now, previous_run_time, next_date[1])} :
           IF c.returns
           THEN /\ result' = c.value
                /\ pc' = "returned"
                /\ UNCHANGED previous_date
           ELSE /\ previous_date' = next_date
                /\ pc' = "cal_loop"
                /\ UNCHANGED result
    /\ UNCHANGED <<callVars, year, month, next_date, cronVars>>
    /\ sched' = AfterEvaluation(sched)
    /\ UNCHANGED lifeVars

\* CronSchedule.get_next_run_time: the cursor before the loop
CronBegin ==
    /\ pc = "call"
    /\ sched.kind = "cron"
    /\ next_time' = CronInitial(sched, now, previous_run_time)
    /\ fieldnum' = 0
    /\ pc' = "cron_loop"
    /\ UNCHANGED <<callVars, result, calVars>>
    /\ sched' = AfterEvaluation(sched)
    /\ UNCHANGED lifeVars

\* one pass of the while loop
CronLoop ==
    /\ pc = "cron_loop"
    /\ fieldnum >= 0 /\ fieldnum < Len(sched.fields)
    /\ YearOf(next_time.naive) <= MaxYear
    /\ \E c \in {CronStep(sched, next_time, fieldnum)} :
           /\ next_time' = c.next_time
           /\ fieldnum' = c.fieldnum
           /\ pc' = IF c.raised THEN "raised"
                    ELSE IF c.returns THEN "returned" ELSE "cron_loop"
           /\ result' = IF c.returns THEN None ELSE result
    /\ UNCHANGED <<callVars, calVars>>
    /\ sched' = AfterEvaluation(sched)
    /\ UNCHANGED lifeVars

\* the loop is left: return the cursor, or None
CronReturn ==
    /\ pc = "cron_loop"
    /\ ~(fieldnum >= 0 /\ fieldnum < Len(sched.fields))
    /\ result' = CronResult(next_time, fieldnum)
    /\ pc' = "returned"
    /\ UNCHANGED <<callVars, calVars, cronVars>>
    /\ sched' = AfterEvaluation(sched)
    /\ UNCHANGED lifeVars

\* an iteration that goes on for as long as there is a result
GetRunTimesContinuesWhileResult(r, now_) == r # None

\* get_run_times goes on for as long as the result is a time not after now
GetRunTimesContinues(r, now_) == r # None /\ NotAfter(r[1], now_)

\* get_run_times: produce the result and ask for the one after it
Emit ==
    /\ pc = "returned"
    /\ GetRunTimesContinues(result, now)
    /\ Len(run_times) < MaxRunTimes
    /\ run_times' = Append(run_times, result[1])
    /\ previous_run_time' = result
    /\ pc' = "call"
    /\ UNCHANGED <<now, result, calVars, cronVars>>
    /\ sched' = AfterEvaluation(sched)
    /\ UNCHANGED lifeVars

\* get_run_times: the sequence ends
Stop ==
    /\ pc = "returned"
    /\ ~GetRunTimesContinues(result, now)
    /\ pc' = "done"
    /\ UNCHANGED <<callVars, result, calVars, cronVars>>
    /\ sched' = AfterEvaluation(sched)
    /\ UNCHANGED lifeVars

Next ==
    \/ DateCall
    \/ IntervalCall
    \/ CalBegin
    \/ CalLoop
    \/ CalInner
    \/ CalCheckStep
    \/ CronBegin
    \/ CronLoop
    \/ CronReturn
    \/ Emit
    \/ Stop

Spec == Init /\ [][Next]_vars

\* every step that can be taken is eventually taken: the caller keeps
\* iterating and the interpreter keeps running
FairSpec == Spec /\ WF_vars(Next)

(***************************************************************************)
(* Construction, __getstate__ and __setstate__ as steps.  An instance is   *)
(* constructed from args, its state record is taken, and the record is     *)
(* handed, under some version, to __setstate__ of a fresh instance.        *)
(***************************************************************************)
runVars == <<now, previous_run_time, result, run_times, calVars, cronVars>>

LifeInit ==
    /\ args \in LifeArgs
    /\ pc = "new"
    /\ sched = BlankSchedule
    /\ state = None
    /\ restored = BlankSchedule
    /\ error = NoError
    /\ now = Berlin(2016, 1, 1, 0, 0, 0)
    /\ previous_run_time = None
    /\ result = None
    /\ run_times = <<>>
    /\ previous_date = None
    /\ year = 0
    /\ month = 0
    /\ next_date = None
    /\ next_time = Berlin(2016, 1, 1, 0, 0, 0)
    /\ fieldnum = 0

\* DateSchedule.__init__
DateNew ==
    /\ pc = "new"
    /\ args.kind = "date"
    /\ ~MisfireGraceTimeInvalid(args.misfire_grace_time)
    /\ sched' = DateSchedule(convert_to_datetime(args.run_time)[1])
    /\ pc' = "constructed"
    /\ UNCHANGED <<runVars, args, state, restored, error>>

\* BaseSchedule.__init__, reached through super().__init__(**kwargs) as the
\* first statement of each constructor: a misfire_grace_time of 0 is refused
BaseNew ==
    /\ pc = "new"
    /\ MisfireGraceTimeInvalid(args.misfire_grace_time)
    /\ error' = Exception("ValueError", "misfire_grace_time must be a positive integer or None")
    /\ pc' = "init_failed"
    /\ UNCHANGED <<runVars, sched, args, state, restored>>

\* IntervalSchedule.__init__
IntervalNew ==
    /\ pc = "new"
    /\ args.kind = "interval"
    /\ ~MisfireGraceTimeInvalid(args.misfire_grace_time)
    /\ \E interval \in {total_seconds(args)} :
           IF IntervalTooShort(interval)
           THEN /\ error' = Exception("ValueError", "interval must be at least 1 second long")
                /\ pc' = "init_failed"
                /\ UNCHANGED sched
           ELSE IF StartAfterEnd(args.start_time, args.end_time)
           THEN /\ error' = Exception("ValueError", "end_time cannot be earlier than start_time")
                /\ pc' = "init_failed"
                /\ UNCHANGED sched
           ELSE /\ sched' = IntervalSchedule(interval, convert_to_datetime(args.start_time),
                                             convert_to_datetime(args.end_time))
                /\ pc' = "constructed"
                /\ UNCHANGED error
    /\ UNCHANGED <<runVars, args, state, restored>>

\* CalendarIntervalSchedule.__init__
CalendarIntervalNew ==
    /\ pc = "new"
    /\ args.kind = "calendarinterval"
    /\ ~MisfireGraceTimeInvalid(args.misfire_grace_time)
    /\ IF args.years = 0 /\ args.months = 0 /\ args.weeks = 0 /\ args.days = 0
       THEN /\ error' = Exception("ValueError", "the interval must be at least 1 day long")
            /\ pc' = "init_failed"
            /\ UNCHANGED sched
       ELSE IF args.end_date # None /\ args.start_date = None
       THEN /\ error' = Exception("TypeError", "'>' not supported between instances of 'NoneType' and 'datetime.date'")
            /\ pc' = "init_failed"
            /\ UNCHANGED sched
       ELSE IF args.end_date # None /\ args.start_date[1] > args.end_date[1]
       THEN /\ error' = Exception("ValueError", "end_date cannot be earlier than start_date")
            /\ pc' = "init_failed"
            /\ UNCHANGED sched
       ELSE /\ sched' = CalendarIntervalSchedule(
                            args.years, args.months, args.weeks, args.days,
                            args.hour, args.minute, args.second,
                            IF args.start_date # None THEN args.start_date[1] ELSE args.today,
                            args.end_date)
            /\ pc' = "constructed"
            /\ UNCHANGED error
    /\ UNCHANGED <<runVars, args, state, restored>>

\* CronSchedule.__init__
CronNew ==
    /\ pc = "new"
    /\ args.kind = "cron"
    /\ ~MisfireGraceTimeInvalid(args.misfire_grace_time)
    /\ IF FieldTextError(args.field_values) # NoError
       THEN /\ error' = FieldTextError(args.field_values)
            /\ pc' = "init_failed"
            /\ UNCHANGED sched
       ELSE IF StartAfterEnd(args.start_time, args.end_time)
       THEN /\ error' = Exception("ValueError", "end_time cannot be earlier than start_time")
            /\ pc' = "init_failed"
            /\ UNCHANGED sched
       ELSE /\ sched' = CronSchedule(CompileFields(args.field_values),
                                     convert_to_datetime(args.start_time),
                                     convert_to_datetime(args.end_time))
            /\ pc' = "constructed"
            /\ UNCHANGED error
    /\ UNCHANGED <<runVars, args, state, restored>>

\* DateSchedule.__getstate__
DateGetState ==
    /\ pc = "constructed"
    /\ sched.kind = "date"
    /\ state' = Some([NoState EXCEPT !.version = 1,
                                     !.run_time = Some(Timestamp(sched.run_time[1]))])
    /\ pc' = "serialized"
    /\ UNCHANGED <<runVars, sched, args, restored, error>>

\* IntervalSchedule.__getstate__
IntervalGetState ==
    /\ pc = "constructed"
    /\ sched.kind = "interval"
    /\ state' = Some([NoState EXCEPT
           !.version = 1,
           !.interval = Some(sched.interval),
           !.start_time = IF sched.start_time # None
                          THEN Some(Timestamp(sched.start_time[1])) ELSE None,
           !.end_time = IF sched.end_time # None
                        THEN Some(Timestamp(sched.end_time[1])) ELSE None])
    /\ pc' = "serialized"
    /\ UNCHANGED <<runVars, sched, args, restored, error>>

\* CalendarIntervalSchedule.__getstate__
CalendarIntervalGetState ==
    /\ pc = "constructed"
    /\ sched.kind = "calendarinterval"
    /\ state' = Some([NoState EXCEPT
           !.version = 1,
           !.interval = Some(<<sched.years, sched.months, sched.weeks, sched.days>>),
           !.start_date = Some(date_toordinal(sched.start_date)),
           !.end_date = IF sched.end_date # None
                        THEN Some(date_toordinal(sched.end_date[1])) ELSE None,
           !.time = IF TimeTuple(sched.time) # <<0, 0, 0>>
                    THEN Some(TimeTuple(sched.time)) ELSE None])
    /\ pc' = "serialized"
    /\ UNCHANGED <<runVars, sched, args, restored, error>>

\* CronSchedule.__getstate__
CronGetState ==
    /\ pc = "constructed"
    /\ sched.kind = "cron"
    /\ state' = Some([NoState EXCEPT
           !.version = 1,
           !.fields = Some(FieldTexts(sched.fields)),
           !.start_time = IF sched.start_time # None
                          THEN Some(Timestamp(sched.start_time[1])) ELSE None,
           !.end_time = IF sched.end_time # None
                        THEN Some(Timestamp(sched.end_time[1])) ELSE None])
    /\ pc' = "serialized"
    /\ UNCHANGED <<runVars, sched, args, restored, error>>

\* DateSchedule.__setstate__, on the record under version v
DateSetState ==
    /\ pc = "serialized"
    /\ sched.kind = "date"
    /\ \E v \in Versions : \E st \in {[state[1] EXCEPT !.version = v]} :
           /\ state' = Some(st)
           /\ IF VersionTooNew(st.version)
              THEN /\ error' = VersionError(ClassName("date"), st.version)
                   /\ pc' = "setstate_failed"
                   /\ UNCHANGED restored
              ELSE /\ restored' = [restored EXCEPT
                                      !.kind = "date",
                                      !.run_time = Some(FromTimestamp(st.run_time[1]))]
                   /\ pc' = "restored"
                   /\ UNCHANGED error
    /\ UNCHANGED <<runVars, sched, args>>

\* IntervalSchedule.__setstate__, on the record under version v
IntervalSetState ==
    /\ pc = "serialized"
    /\ sched.kind = "interval"
    /\ \E v \in Versions : \E st \in {[state[1] EXCEPT !.version = v]} :
           /\ state' = Some(st)
           /\ IF VersionTooNew(st.version)
              THEN /\ error' = VersionError(ClassName("interval"), st.version)
                   /\ pc' = "setstate_failed"
                   /\ UNCHANGED restored
              ELSE /\ restored' = [restored EXCEPT
                          !.kind = "interval",
                          !.start_time = IF st.start_time # None
                                         THEN Some(FromTimestamp(st.start_time[1])) ELSE None,
                          !.end_time = IF st.end_time # None
                                       THEN Some(FromTimestamp(st.end_time[1])) ELSE None,
                          !.interval = st.interval[1]]
                   /\ pc' = "restored"
                   /\ UNCHANGED error
    /\ UNCHANGED <<runVars, sched, args>>

\* CalendarIntervalSchedule.__setstate__, on the record under version v
CalendarIntervalSetState ==
    /\ pc = "serialized"
    /\ sched.kind = "calendarinterval"
    /\ \E v \in Versions : \E st \in {[state[1] EXCEPT !.version = v]} :
           /\ state' = Some(st)
           /\ IF VersionTooNew(st.version)
              THEN /\ error' = VersionError(ClassName("calendarinterval"), st.version)
                   /\ pc' = "setstate_failed"
                   /\ UNCHANGED restored
              ELSE /\ restored' = [restored EXCEPT
                          !.kind = "calendarinterval",
                          !.years = st.interval[1][1], !.months = st.interval[1][2],
                          !.weeks = st.interval[1][3], !.days = st.interval[1][4],
                          !.time = IF st.time # None THEN TimeOf(st.time[1]) ELSE 0,
                          !.start_date = date_fromordinal(st.start_date[1]),
                          !.end_date = IF st.end_date # None
                                       THEN Some(date_fromordinal(st.end_date[1]))
                                       ELSE None]
                   /\ pc' = "restored"
                   /\ UNCHANGED error
    /\ UNCHANGED <<runVars, sched, args>>

\* CronSchedule.__setstate__, on the record under version v
CronSetState ==
    /\ pc = "serialized"
    /\ sched.kind = "cron"
    /\ \E v \in Versions : \E st \in {[state[1] EXCEPT !.version = v]} :
           /\ state' = Some(st)
           /\ IF VersionTooNew(st.version)
              THEN /\ error' = VersionError(ClassName("cron"), st.version)
                   /\ pc' = "setstate_failed"
                   /\ UNCHANGED restored
              ELSE IF st.start_time = None
              THEN /\ error' = Exception("KeyError", "start_time")
                   /\ pc' = "setstate_failed"
                   /\ UNCHANGED restored
              ELSE IF FieldTextError(st.fields[1]) # NoError
              THEN /\ error' = FieldTextError(st.fields[1])
                   /\ pc' = "setstate_failed"
                   /\ restored' = [restored EXCEPT
                          !.kind = "cron",
                          !.start_time = Some(FromTimestamp(st.start_time[1])),
                          !.end_time = IF st.end_time # None
                                       THEN Some(FromTimestamp(st.end_time[1])) ELSE None]
              ELSE /\ restored' = [restored EXCEPT
                          !.kind = "cron",
                          !.start_time = Some(FromTimestamp(st.start_time[1])),
                          !.end_time = IF st.end_time # None
                                       THEN Some(FromTimestamp(st.end_time[1])) ELSE None,
                          !.fields = _create_fields(CompileFields(st.fields[1]))]
                   /\ pc' = "restored"
                   /\ UNCHANGED error
    /\ UNCHANGED <<runVars, sched, args>>

LifeNext ==
    \/ BaseNew
    \/ DateNew
    \/ IntervalNew
    \/ CalendarIntervalNew
    \/ CronNew
    \/ DateGetState
    \/ IntervalGetState
    \/ CalendarIntervalGetState
    \/ CronGetState
    \/ DateSetState
    \/ IntervalSetState
    \/ CalendarIntervalSetState
    \/ CronSetState

LifeSpec == LifeInit /\ [][LifeNext]_vars

(***************************************************************************)
(* Properties                                                              *)
(***************************************************************************)
Returned == pc = "returned"
RunTimeIndexes == 1..Len(run_times)

\* C1: get_run_times never produces a fire-time later than now; it stops at
\* the first result that is None or later than now, and does not produce
\* that result.
C1_NoRunTimeAfterNow ==
    /\ \A i \in RunTimeIndexes : NotAfter(run_times[i], now)
    /\ pc = "done" =>
          /\ result = None \/ Before(now, result[1])
          /\ result # None => \A i \in RunTimeIndexes : run_times[i] # result[1]

C1_Witness ==
    /\ pc = "done"
    /\ Len(run_times) >= 2
    /\ result # None

\* C2: consecutive fire-times produced by get_run_times strictly increase
\* as absolute instants.
C2_RunTimesIncrease ==
    \A i \in RunTimeIndexes :
        i + 1 \in RunTimeIndexes => Before(run_times[i], run_times[i + 1])

\* a sequence that runs over the end of summer time: the wall clock of the
\* later fire-time is the earlier one
C2_Witness ==
    /\ pc = "done"
    /\ \E i \in RunTimeIndexes :
          /\ i + 1 \in RunTimeIndexes
          /\ run_times[i].off = DstOffset
          /\ run_times[i + 1].off = StdOffset
          /\ run_times[i + 1].naive < run_times[i].naive

\* C3: every get_run_times iteration comes to its end.
C3_GetRunTimesEnds == <>(pc = "done")

\* C4: a result is never past the end bound: end_time for Interval and
\* Cron, end_date (against the local date of the result) for CalendarInterval.
C4_EndBound ==
    (Returned /\ result # None) =>
        /\ (sched.kind \in {"interval", "cron"} /\ sched.end_time # None)
              => NotAfter(result[1], sched.end_time[1])
        /\ (sched.kind = "calendarinterval" /\ sched.end_date # None)
              => DateOf(result[1].naive) <= sched.end_date[1]

C4_Witness ==
    /\ Returned
    /\ result # None
    /\ sched.kind = "cron"
    /\ sched.end_time # None
    /\ Instant(sched.end_time[1]) - Instant(result[1]) < 86400

\* C5: without a previous_run_time a result is never before the start of
\* the schedule and, for Interval, Cron and CalendarInterval, never before now.
C5_StartBound ==
    (Returned /\ result # None /\ previous_run_time = None
       /\ sched.kind \in {"interval", "cron", "calendarinterval"}) =>
        /\ NotAfter(now, result[1])
        /\ (sched.kind \in {"interval", "cron"} /\ sched.start_time # None)
              => NotAfter(sched.start_time[1], result[1])
        /\ sched.kind = "calendarinterval"
              => DateOf(result[1].naive) >= sched.start_date

\* a calendar interval asked after its start date: the dates before now are
\* passed over
C5_Witness ==
    /\ Returned
    /\ result # None
    /\ previous_run_time = None
    /\ sched.kind = "calendarinterval"
    /\ DateOf(now.naive) > sched.start_date + 365
    /\ previous_date # None

\* C6: a Date schedule returns run_time exactly when previous_run_time is
\* None, whatever now is, and None otherwise; its get_run_times produces at
\* most one fire-time.
C6_DateOnce ==
    sched.kind = "date" =>
        /\ Returned =>
              result = (IF previous_run_time = None THEN sched.run_time ELSE None)
        /\ Len(run_times) <= 1

C6_Witness ==
    /\ sched.kind = "date"
    /\ pc = "done"
    /\ Len(run_times) = 1
    /\ result = None

\* C7: an Interval schedule takes previous + interval, else max(now,
\* start_time), else now; it returns None exactly when end_time is set and
\* that candidate is later, and the candidate instant otherwise.
C7_IntervalCandidate ==
    (Returned /\ sched.kind = "interval") =>
        LET candidate ==
                IF previous_run_time # None
                THEN Instant(previous_run_time[1]) + sched.interval
                ELSE IF sched.start_time # None
                     THEN Max(Instant(now), Instant(sched.start_time[1]))
                     ELSE Instant(now)
            pastEnd == sched.end_time # None
                       /\ candidate > Instant(sched.end_time[1])
        IN  /\ result = None <=> pastEnd
            /\ result # None =>
                  /\ Instant(result[1]) = candidate
                  /\ Normalized(result[1])

\* resumed after start_time without a previous run: now itself
C7_Witness ==
    /\ Returned
    /\ sched.kind = "interval"
    /\ previous_run_time = None
    /\ sched.start_time # None
    /\ Before(sched.start_time[1], now)
    /\ result = Some(now)

\* the date k intervals of (years, months) after year y, month m, keeping
\* the day of the month: its year and month
TargetMonth(s, y, m, k) ==
    LET total == y * 12 + (m - 1) + k * (s.years * 12 + s.months)
    IN  [year |-> total \div 12, month |-> (total % 12) + 1]

TargetExists(s, date, k) ==
    LET t == TargetMonth(s, date.year, date.month, k)
    IN  ValidDate(t.year, t.month, date.day)

\* C8: a target date that does not exist is skipped and (years, months) is
\* added again until a date exists; weeks * 7 + days is then added once.  The
\* candidate is therefore the first existing target plus the days.
C8_FirstExistingTarget ==
    (pc = "cal_check" /\ previous_date # None) =>
        LET date == FromOrdinal(previous_date[1])
            k == CHOOSE k \in 1..8 :
                     /\ TargetExists(sched, date, k)
                     /\ \A j \in 1..(k - 1) : ~TargetExists(sched, date, j)
            t == TargetMonth(sched, date.year, date.month, k)
        IN  next_date[1] = ToOrdinal(t.year, t.month, date.day)
                               + sched.weeks * 7 + sched.days

\* the wall clock the schedule asks for on the candidate date
CandidateTime == next_date[1] * 86400 + sched.time

AtCandidate ==
    /\ pc = "cal_check"
    /\ ~CalPastEnd(sched, next_date[1])

\* C9: a candidate date on which the time of day falls into a DST gap yields
\* no fire-time: the search goes on from that date, and no result lies on
\* such a date.
C9_GapDateSkipped ==
    /\ [][(AtCandidate /\ IsGap(CandidateTime)) =>
              /\ pc' = "cal_loop"
              /\ previous_date' = next_date
              /\ result' = result]_vars
    /\ [](Returned /\ sched.kind = "calendarinterval" /\ result # None =>
              /\ ~IsGap(result[1].naive)
              /\ ~IsGap(DateOf(result[1].naive) * 86400 + sched.time))

\* the date after the gap date is returned, reached from the gap date
C9_Witness ==
    /\ Returned
    /\ sched.kind = "calendarinterval"
    /\ result # None
    /\ previous_date # None
    /\ IsGap(previous_date[1] * 86400 + sched.time)
    /\ DateOf(result[1].naive) = previous_date[1] + sched.days + sched.weeks * 7

\* C10: on a candidate date where the time of day is repeated, the earlier
\* (DST) instant is returned if it is not before now, else the later one if
\* it is not before now, else the search goes on from that date.
C10_OverlapFirstNotPassed ==
    [][(AtCandidate /\ IsOverlap(CandidateTime)) =>
          LET dst == Aware(CandidateTime, DstOffset)
              std == Aware(CandidateTime, StdOffset)
          IN  IF NotAfter(now, dst)
              THEN pc' = "returned" /\ result' = Some(dst)
              ELSE IF NotAfter(now, std)
              THEN pc' = "returned" /\ result' = Some(std)
              ELSE pc' = "cal_loop" /\ previous_date' = next_date]_vars

\* the DST instant has passed and the later one is returned
C10_Witness ==
    /\ Returned
    /\ sched.kind = "calendarinterval"
    /\ result # None
    /\ IsOverlap(result[1].naive)
    /\ result[1].off = StdOffset
    /\ Before(Aware(result[1].naive, DstOffset), now)

\* C11: a time of day that is repeated on a date is run twice: once the
\* DST instant of the date has been produced and is fed back as
\* previous_run_time, the next fire-time is the non-DST instant of that date.
C11_RepeatedTimeTwice ==
    (Returned /\ sched.kind = "calendarinterval" /\ previous_run_time # None) =>
        LET prev == previous_run_time[1]
        IN  (/\ IsOverlap(prev.naive)
             /\ prev.off = DstOffset
             /\ prev.naive % 86400 = sched.time)
                => result = Some(Aware(prev.naive, StdOffset))

\* C12: with a previous_run_time, a candidate date whose time of day exists
\* yields a fire-time on that date, whether or not it lies before now.
C12_CatchUp ==
    [][(AtCandidate /\ previous_run_time # None /\ ~IsGap(CandidateTime)) =>
          /\ pc' = "returned"
          /\ result' # None
          /\ result'[1].naive = CandidateTime]_vars

\* C13: without weeks and days, every fire-time keeps the day of the month
\* of the date it was advanced from and has the time of day of the schedule.
C13_SameDaySameTime ==
    (sched.kind = "calendarinterval" /\ sched.weeks = 0 /\ sched.days = 0) =>
        /\ \A i \in RunTimeIndexes :
              /\ run_times[i].naive % 86400 = sched.time
              /\ i + 1 \in RunTimeIndexes
                    => DayOf(run_times[i + 1].naive) = DayOf(run_times[i].naive)
        /\ (Returned /\ result # None) =>
              /\ result[1].naive % 86400 = sched.time
              /\ DayOf(result[1].naive) =
                    (IF previous_run_time # None
                     THEN DayOf(previous_run_time[1].naive)
                     ELSE FromOrdinal(sched.start_date).day)

\* a month-end schedule that has stepped over a month without a 31st
C13_Witness ==
    /\ pc = "done"
    /\ sched.kind = "calendarinterval"
    /\ sched.weeks = 0 /\ sched.days = 0
    /\ \E i \in RunTimeIndexes :
          /\ i + 1 \in RunTimeIndexes
          /\ DayOf(run_times[i].naive) = 31
          /\ DateOf(run_times[i + 1].naive) - DateOf(run_times[i].naive) > 31

\* the wall clock w satisfies the expressions of the field: its value is a
\* value the field accepts
FieldMatches(field, w) ==
    Let(Aware(w, StdOffset), LAMBDA dv :
        FieldNextValue(field, dv) = Some(FieldValue(field, dv)))

\* the wall clock w satisfies all eight fields
WallMatches(fields, w) ==
    \A k \in 1..Len(fields) : FieldMatches(fields[k], w)

\* the wall-clock times of day d that satisfy all eight fields
MatchingTimes(fields, d) ==
    IF \E k \in 1..5 : ~FieldMatches(fields[k], d * 86400) THEN {}
    ELSE {d * 86400 + h * 3600 + mi * 60 + s :
              h  \in {x \in 0..23 : FieldMatches(fields[6], d * 86400 + x * 3600)},
              mi \in {x \in 0..59 : FieldMatches(fields[7], d * 86400 + x * 60)},
              s  \in {x \in 0..59 : FieldMatches(fields[8], d * 86400 + x)}}

\* an instant from cursor on and before res at which the wall clock of the
\* timezone satisfies all fields
MatchBetween(fields, cursor, res) ==
    \E d \in DateOf(cursor.naive)..DateOf(res.naive) :
        \E w \in MatchingTimes(fields, d) :
            \E o \in PossibleOffsets(w) :
                Instant(cursor) <= w - o /\ w - o < Instant(res)

\* C14: a Cron result is the earliest instant at or after the initial cursor
\* at which the wall clock of the timezone satisfies every field: the result
\* satisfies them, and no instant between the cursor and the result does.
C14_EarliestMatch ==
    (Returned /\ sched.kind = "cron" /\ result # None) =>
        \E cursor \in {CronInitial(sched, now, previous_run_time)} :
            \E res \in {Normalize(result[1])} :
                /\ WallMatches(sched.fields, res.naive)
                /\ ~MatchBetween(sched.fields, cursor, res)

\* C15: get_next_run_time cannot fail: whatever the schedule and whatever
\* now and previous_run_time, the call never raises, and every call that
\* is begun comes back with a time or None.
C15_CallCompletes == [](pc # "raised") /\ ((pc = "call") ~> (pc = "returned"))

\* __setstate__ has run on the record __getstate__ produced
SetStateDone == pc \in {"restored", "setstate_failed"}

\* a constructor has run
InitDone == pc \in {"constructed", "init_failed"}

\* two optional datetimes are both absent, or both set and equal
SameOptionalTime(a, b) ==
    IF a = None \/ b = None THEN a = None /\ b = None ELSE SameTime(a[1], b[1])

\* C16: for every constructed cron schedule, with or without start_time and
\* end_time, __setstate__ on the version 1 record of __getstate__ succeeds
\* and gives a schedule with the same start_time, the same end_time and the
\* same expressions in each of the 8 fields.
C16_CronRoundTrip ==
    (SetStateDone /\ sched.kind = "cron" /\ state[1].version = 1) =>
        /\ pc = "restored"
        /\ SameOptionalTime(restored.start_time, sched.start_time)
        /\ SameOptionalTime(restored.end_time, sched.end_time)
        /\ Len(restored.fields) = Len(FieldNames)
        /\ \A k \in 1..Len(FieldNames) :
               /\ restored.fields[k].name = sched.fields[k].name
               /\ restored.fields[k].expressions = sched.fields[k].expressions

\* C17: for every constructed date, interval and calendar interval schedule,
\* also when optional parts are absent from the record, __setstate__ on the
\* version 1 record of __getstate__ succeeds and gives a schedule equal on
\* run_time, interval, start_time, end_time, years, months, weeks, days,
\* time, start_date and end_date.
C17_RoundTrip ==
    (SetStateDone /\ sched.kind \in {"date", "interval", "calendarinterval"}
                  /\ state[1].version = 1) =>
        /\ pc = "restored"
        /\ restored.kind = sched.kind
        /\ SameOptionalTime(restored.run_time, sched.run_time)
        /\ SameOptionalTime(restored.start_time, sched.start_time)
        /\ SameOptionalTime(restored.end_time, sched.end_time)
        /\ restored.interval = sched.interval
        /\ <<restored.years, restored.months, restored.weeks, restored.days>>
               = <<sched.years, sched.months, sched.weeks, sched.days>>
        /\ restored.time = sched.time
        /\ restored.start_date = sched.start_date
        /\ restored.end_date = sched.end_date

\* a calendar interval restored from a record without end_date and time, and
\* an interval restored from a record without start_time and end_time
C17_Witness ==
    /\ pc = "restored"
    /\ \/ /\ sched.kind = "calendarinterval"
          /\ state[1].end_date = None /\ state[1].time = None
          /\ restored.start_date = ToOrdinal(2016, 12, 31)
       \/ /\ sched.kind = "interval"
          /\ state[1].start_time = None /\ state[1].end_time = None
          /\ restored.interval = 30

\* C18: __setstate__ on a record whose version is above 1 fails with the
\* ValueError 'cannot deserialize <ClassName> definition newer than version
\* 1 (version <n> received)' and leaves every attribute of the instance as
\* it was; a record of version 1 is not refused by this check, and date,
\* interval and calendar interval records of version 1 are restored.
C18_VersionGate ==
    SetStateDone =>
        IF state[1].version > 1
        THEN /\ pc = "setstate_failed"
             /\ error.type = "ValueError"
             /\ error.message = "cannot deserialize {} definition newer than version 1 (version {} received)"
             /\ error.cls = ClassName(sched.kind)
             /\ error.version = state[1].version
             /\ restored = BlankSchedule
        ELSE /\ error.cls = "" /\ error.version = 0
             /\ sched.kind # "cron" => pc = "restored"

\* a cron record of version 3 has been refused
C18_Witness ==
    /\ pc = "setstate_failed"
    /\ sched.kind = "cron"
    /\ state[1].version = 3
    /\ error.version = 3

\* the arguments meet what the specification asks of a calendar interval
CalendarArgsValid ==
    /\ args.years >= 0 /\ args.months >= 0 /\ args.weeks >= 0 /\ args.days >= 0
    /\ args.years > 0 \/ args.months > 0 \/ args.weeks > 0 \/ args.days > 0
    /\ (args.start_date # None /\ args.end_date # None)
           => args.start_date[1] <= args.end_date[1]

\* C19: a calendar interval is constructed exactly when at least one of
\* years, months, weeks, days is positive, none is negative, and start_date
\* is not after end_date when both are given; otherwise the constructor
\* fails with one of its two ValueErrors and there is no schedule
\* (misfire_grace_time being sound, whose error is raised earlier).
C19_CalendarConstructor ==
    (InitDone /\ args.kind = "calendarinterval" /\ args.misfire_grace_time # Some(0)) =>
        IF CalendarArgsValid
        THEN pc = "constructed"
        ELSE /\ pc = "init_failed"
             /\ error.type = "ValueError"
             /\ error.message \in {"the interval must be at least 1 day long",
                                   "end_date cannot be earlier than start_date"}

C21_MisfireGraceTime ==
    InitDone =>
        IF args.misfire_grace_time = Some(0)
        THEN /\ pc = "init_failed"
             /\ error = Exception("ValueError", "misfire_grace_time must be a positive integer or None")
        ELSE error.message # "misfire_grace_time must be a positive integer or None"

\* a calendar interval with an all-zero interval and misfire_grace_time = 0
\* has been refused for its misfire_grace_time
C21_Witness ==
    /\ pc = "init_failed"
    /\ args.kind = "calendarinterval"
    /\ args.years = 0 /\ args.months = 0 /\ args.weeks = 0 /\ args.days = 0
    /\ args.misfire_grace_time = Some(0)
    /\ error.message = "misfire_grace_time must be a positive integer or None"

\* the 8 field names in their order
CanonicalNames ==
    <<"year", "month", "week", "day", "day_of_week", "hour", "minute", "second">>

\* the expressions of an omitted field: '*' before the first field that is
\* given (or when none is), else the default of the field
OmittedExpressions(k) ==
    IF \A j \in 1..k : args.field_values[CanonicalNames[j]] = None
    THEN <<AllExpression(None)>>
    ELSE CASE CanonicalNames[k] \in {"month", "day"} -> <<RangeExpression(1, None, None)>>
           [] CanonicalNames[k] \in {"hour", "minute", "second"} -> <<RangeExpression(0, None, None)>>
           [] OTHER -> <<AllExpression(None)>>

\* the fields are the 8 canonical ones; those given are not flagged, those
\* omitted are flagged and hold the expressions of an omitted field
FieldsWellFormed(fields) ==
    /\ Len(fields) = 8
    /\ \A k \in 1..8 :
           /\ fields[k].name = CanonicalNames[k]
           /\ IF args.field_values[CanonicalNames[k]] # None
              THEN ~fields[k].is_default
              ELSE /\ fields[k].is_default
                   /\ fields[k].expressions = OmittedExpressions(k)

\* C22: every cron schedule, constructed or restored by __setstate__, has the
\* 8 fields year, month, week, day, day_of_week, hour, minute, second in this
\* order; a field omitted before the first given one is '*', a field omitted
\* after it has its default (month 1, day 1, hour 0, minute 0, second 0, week
\* and day_of_week '*'), and exactly the omitted fields are flagged is_default.
C22_EightFields ==
    /\ (args.kind = "cron" /\ pc \in {"constructed", "serialized", "restored", "setstate_failed"})
           => FieldsWellFormed(sched.fields)
    /\ (args.kind = "cron" /\ pc = "restored") => FieldsWellFormed(restored.fields)

\* a restored schedule given day and hour only: month is '*', minute is 0
C22_Witness ==
    /\ pc = "restored"
    /\ args.kind = "cron"
    /\ args.field_values.day # None /\ args.field_values.month = None
    /\ args.field_values.minute = None
    /\ restored.fields[2].expressions = <<AllExpression(None)>>
    /\ restored.fields[7].expressions = <<RangeExpression(0, None, None)>>
    /\ restored.fields[7].is_default
    /\ ~restored.fields[4].is_default

\* the texts given to the cron constructor, each with the name of its field
GivenTexts ==
    UNION {{<<n, args.field_values[n][1][k]>> : k \in 1..Len(args.field_values[n][1])} :
              n \in {f \in DOMAIN args.field_values : args.field_values[f] # None}}

\* what is wrong with a text given for the field n, "" if nothing is:
\* a step of 0, a range whose first value is above its last, a weekday name
\* that is none, a text none of the patterns of the field allows
Fault(n, t) ==
    IF t.step = Some(0) THEN "increment must be higher than 0"
    ELSE IF t.form = "digits"
    THEN IF t.last # None /\ t.first > t.last[1]
         THEN "the minimum value in a range must not be higher than the maximum"
         ELSE ""
    ELSE IF t.form = "names" /\ n = "day_of_week"
    THEN IF WeekdayIndex(t.first_name) = -1
            \/ (t.last_name # "" /\ WeekdayIndex(t.last_name) = -1)
         THEN "invalid weekday name \"%s\""
         ELSE IF t.last_name # "" /\ WeekdayIndex(t.first_name) > WeekdayIndex(t.last_name)
         THEN "the minimum value in a range must not be higher than the maximum"
         ELSE ""
    ELSE IF t.form = "position" /\ n = "day"
    THEN IF WeekdayIndex(t.weekday_name) = -1
         THEN "invalid weekday name \"%s\"" ELSE ""
    ELSE IF t.form = "*" \/ (t.form = "last" /\ n = "day") THEN ""
    ELSE IF t.form = "position" /\ n = "day_of_week"
    THEN "invalid weekday name \"%s\""
    ELSE "unrecognized expression \"%s\" for field \"%s\""

\* C23: a cron constructor given a text with a step of 0, a range whose
\* first value is above its last, an unknown weekday name, or a text that
\* none of the patterns of its field matches fails with the ValueError
\* pinned for that fault, and a constructor given only sound texts does not
\* fail with any of them; with a single text given, the message is the one
\* of the fault of that text.
C23_ParseErrors ==
    (InitDone /\ args.kind = "cron" /\ args.misfire_grace_time # Some(0)) =>
        LET faults == {Fault(g[1], g[2]) : g \in GivenTexts} \ {""}
        IN  IF faults = {}
            THEN error.message \notin
                     {"increment must be higher than 0",
                      "the minimum value in a range must not be higher than the maximum",
                      "invalid weekday name \"%s\"",
                      "unrecognized expression \"%s\" for field \"%s\""}
            ELSE /\ pc = "init_failed"
                 /\ error.type = "ValueError"
                 /\ error.message \in faults

\* the real fields of the schedule that stand after the field at index j
\* (indexes as in the code, from 0)
RealAfter(j) == {i \in (j + 1)..(Len(sched.fields) - 1) : FieldAt(sched.fields, i).real}

\* a pass of the cron loop whose field has no valid value at or after its
\* current value, while a more significant real field can still be incremented
AtRollover ==
    /\ pc = "cron_loop"
    /\ fieldnum >= 1 /\ fieldnum < Len(sched.fields)
    /\ FieldNextValue(FieldAt(sched.fields, fieldnum), next_time) = None

\* C24: when the field the cron walk stands at has no valid value at or after
\* its current value, the nearest more significant real field that is not at
\* its maximum is incremented by one, the real fields before it keep their
\* values, all real fields after it are reset to their minimum, and the walk
\* resumes at the incremented field.
C24_Rollover ==
    [][(AtRollover /\ pc' = "cron_loop" /\ fieldnum' >= 0) =>
          /\ fieldnum' < fieldnum
          /\ FieldAt(sched.fields, fieldnum').real
          /\ \A i \in RealAfter(fieldnum') : i < fieldnum =>
                 FieldValue(FieldAt(sched.fields, i), next_time)
                     = FieldMax(FieldAt(sched.fields, i), next_time)
          /\ FieldValue(FieldAt(sched.fields, fieldnum'), next_time')
                 = FieldValue(FieldAt(sched.fields, fieldnum'), next_time) + 1
          /\ \A i \in 0..(fieldnum' - 1) : FieldAt(sched.fields, i).real =>
                 FieldValue(FieldAt(sched.fields, i), next_time')
                     = FieldValue(FieldAt(sched.fields, i), next_time)
          /\ \A i \in RealAfter(fieldnum') :
                 FieldValue(FieldAt(sched.fields, i), next_time')
                     = FieldMin(FieldAt(sched.fields, i), next_time')]_vars

\* the year field has no valid value at or after the cursor's year
YearExhausted ==
    /\ pc = "cron_loop" /\ fieldnum = 0
    /\ FieldNextValue(FieldAt(sched.fields, 0), next_time) = None

\* C25: a cron call returns null when the walk rolls back past the year field
\* (the year field has no valid value at or after the cursor's year: the
\* field number drops below 0 and the loop is left with null), and when
\* end_time is set and the cursor is after end_time after a step of the walk.
C25_NoFutureFire ==
    [][/\ YearExhausted =>
              \/ pc' = "cron_loop" /\ fieldnum' < 0
              \/ pc' = "returned" /\ result' = None
       /\ (pc = "cron_loop" /\ fieldnum < 0) =>
              (pc' = "returned" /\ result' = None)
       /\ (/\ pc = "cron_loop" /\ fieldnum >= 0 /\ fieldnum < Len(sched.fields)
           /\ pc' # "raised"
           /\ sched.end_time # None /\ Before(sched.end_time[1], next_time')) =>
              (pc' = "returned" /\ result' = None)]_vars

\* a call that returned null because the year field was exhausted
C25_Witness ==
    /\ sched.kind = "cron" /\ pc = "returned" /\ result = None
    /\ fieldnum < 0
    /\ sched.end_time = None

\* the wall clock of the datetime t matches every field of the schedule s
WallClockMatches(s, t) ==
    /\ t.us = 0
    /\ \A k \in 1..Len(s.fields) :
           FieldNextValue(s.fields[k], t) = Some(FieldValue(s.fields[k], t))

\* the step of minute='*/5', in seconds: the schedules explored fire at whole
\* multiples of five minutes
Grid == 300

\* the real instants on the grid from the instant a up to, not including, b,
\* each with the wall clock of the zone
GridBetween(a, b) ==
    {Normalize(Aware(u * Grid, 0)) : u \in ((a + Grid - 1) \div Grid)..((b - 1) \div Grid)}

\* a cron call has returned a time whose UTC offset differs from the offset
\* of the cursor the walk started with
CronCrossedDst ==
    /\ sched.kind = "cron" /\ pc = "returned" /\ result # None
    /\ result[1].off # CronInitial(sched, now, previous_run_time).off

\* C26: when the cron walk carries the cursor over a DST transition, the
\* result is the next real instant in absolute order whose wall clock matches:
\* it matches, and no instant from the start of the walk up to it does; with
\* minute='*/5', previous 01:55 CET on the gap day gives 03:00 CEST and
\* previous 02:55 CEST on the overlap day gives 02:00 CET.
C26_CronAcrossDst ==
    /\ CronCrossedDst =>
           /\ WallClockMatches(sched, result[1])
           /\ Normalized(result[1])
           /\ \A t \in GridBetween(Instant(CronInitial(sched, now, previous_run_time)),
                                   Instant(result[1])) :
                  ~WallClockMatches(sched, t)
    /\ (/\ sched = CronEveryFive /\ pc = "returned"
        /\ previous_run_time = Some(Berlin(2016, 3, 27, 1, 55, 0))) =>
           result = Some(BerlinDst(2016, 3, 27, 3, 0, 0))
    /\ (/\ sched = CronEveryFive /\ pc = "returned"
        /\ previous_run_time = Some(BerlinDst(2016, 10, 30, 2, 55, 0))) =>
           result = Some(Berlin(2016, 10, 30, 2, 0, 0))

\* an interval call with a previous_run_time has returned a time
IntervalAfterPrevious ==
    /\ sched.kind = "interval" /\ pc = "returned"
    /\ previous_run_time # None /\ result # None

\* C27: with previous_run_time given, the time an interval schedule returns
\* is exactly the interval of elapsed absolute time after previous_run_time
\* and carries the UTC offset in force at that instant in the timezone, also
\* across a DST transition (01:58 CET + 125 s on the gap day is 03:00:05 CEST,
\* 02:58 CEST + 125 s on the overlap day is 02:00:05 CET).
C27_IntervalAcrossDst ==
    /\ IntervalAfterPrevious =>
           /\ Instant(result[1]) = Instant(previous_run_time[1]) + sched.interval
           /\ result[1].us = previous_run_time[1].us
           /\ Normalized(result[1])
    /\ (IntervalAfterPrevious /\ sched.interval = 125
        /\ previous_run_time = Some(Berlin(2016, 3, 27, 1, 58, 0))) =>
           result = Some(BerlinDst(2016, 3, 27, 3, 0, 5))
    /\ (IntervalAfterPrevious /\ sched.interval = 125
        /\ previous_run_time = Some(BerlinDst(2016, 10, 30, 2, 58, 0))) =>
           result = Some(Berlin(2016, 10, 30, 2, 0, 5))

\* an interval call whose result has another UTC offset than previous_run_time
C27_Witness ==
    /\ IntervalAfterPrevious
    /\ result[1].off # previous_run_time[1].off
    /\ sched.interval = 125

C29_CalendarCallReturns ==
    (sched.kind = "calendarinterval" /\ pc = "call") ~> (pc = "returned")

\* the first pass of the inner loop for the date being advanced
FirstAdvance ==
    /\ pc = "cal_advance"
    /\ year = FromOrdinal(previous_date[1]).year
    /\ month = FromOrdinal(previous_date[1]).month

\* C30: advancing the date (y, m, d) by (years, months) has as its first
\* candidate day d of month ((m - 1 + months) mod 12) + 1 of the year
\* y + years + floor((m - 1 + months) / 12); when that date exists it is the
\* one used (plus weeks * 7 + days), December included.
C30_MonthArithmetic ==
    [][FirstAdvance =>
          LET date == FromOrdinal(previous_date[1])
              total == date.month - 1 + sched.months
              y == date.year + sched.years + total \div 12
              m == (total % 12) + 1
          IN  /\ year' = y /\ month' = m
              /\ ValidDate(y, m, date.day) =>
                     /\ next_date' = Some(ToOrdinal(y, m, date.day)
                                              + sched.weeks * 7 + sched.days)
                     /\ pc' = "cal_check"]_vars

\* a cron call has returned a time
CronReturnedTime == sched.kind = "cron" /\ pc = "returned" /\ result # None

\* C31: every time a cron call returns is a wall clock that exists in the
\* timezone (it is not inside a DST gap), and its year, month, ISO week, day,
\* weekday, hour, minute and second, read in the timezone, satisfy the
\* expressions of each field, also when _set_field_value sets a field to a
\* wall clock inside a DST gap or overlap.
C31_ResultExistsAndMatches ==
    CronReturnedTime =>
        /\ ~IsGap(result[1].naive)
        /\ Normalized(result[1])
        /\ WallClockMatches(sched, Normalize(result[1]))

\* a pass of the while loop of the cron walk that did not raise
CronPass ==
    /\ pc = "cron_loop" /\ fieldnum >= 0 /\ fieldnum < Len(sched.fields)
    /\ pc' # "raised"

\* every time a cron call returns is on a whole second and not before the
\* initial cursor: after previous_run_time when one is given, not before now
\* and start_time otherwise
CronResultNotBeforeCursor ==
    CronReturnedTime =>
        /\ result[1].us = 0
        /\ ~Before(result[1], CronInitial(sched, now, previous_run_time))
        /\ previous_run_time # None => Before(previous_run_time[1], result[1])
        /\ previous_run_time = None =>
               /\ ~Before(result[1], now)
               /\ sched.start_time # None => ~Before(result[1], sched.start_time[1])

\* C32 as stated: the cursor never moves backward in absolute time during
\* the field walk, so every non-null result is at or after the initial cursor
\* (after previous_run_time when one is given, at or after max(now,
\* start_time) otherwise), and every result is on a whole second.
C32_CursorNeverBackward ==
    /\ [][CronPass => ~Before(next_time', next_time)]_vars
    /\ []CronResultNotBeforeCursor

\* C32 amended: the cursor never moves backward in a pass that leaves the
\* walk at a field (field number >= 0); the pass that rolls back past the
\* year field resets the cursor to the minimum of every field and the call
\* returns null.  Every non-null result is at or after the initial cursor and
\* on a whole second.
C32_CursorForwardWhileWalking ==
    /\ [][CronPass =>
             /\ fieldnum' >= 0 => ~Before(next_time', next_time)
             /\ (fieldnum' < 0 /\ pc' = "cron_loop") =>
                    /\ YearExhausted
                    /\ CronResult(next_time', fieldnum') = None]_vars
    /\ []CronResultNotBeforeCursor

\* a call with previous_run_time whose walk moved the cursor, over the end of
\* summer time, to the time it returned
C32_Witness ==
    /\ CronReturnedTime /\ previous_run_time # None
    /\ Before(CronInitial(sched, now, previous_run_time), result[1])
    /\ IsOverlap(result[1].naive)

\* the time the cron walk starts from, before it is rounded
CronStartTime ==
    IF previous_run_time # None THEN AddSeconds(previous_run_time[1], 1)
    ELSE IF sched.start_time # None /\ Before(now, sched.start_time[1])
    THEN sched.start_time[1]
    ELSE now

\* C33: the cron walk starts at field 0 with the cursor at
\* previous_run_time + 1 second if previous_run_time is given, otherwise at
\* max(now, start_time) if start_time is set, otherwise at now, rounded up to
\* the next full second (unchanged on a full second) and expressed in the
\* timezone of the schedule.
C33_InitialCursor ==
    [][(pc = "call" /\ sched.kind = "cron") =>
          /\ pc' = "cron_loop" /\ fieldnum' = 0
          /\ next_time'.us = 0
          /\ Instant(next_time') =
                 Instant(CronStartTime) + (IF CronStartTime.us = 0 THEN 0 ELSE 1)
          /\ Normalized(next_time')]_vars

\* a walk that starts on the full second after a now with microseconds
C33_Witness ==
    /\ sched.kind = "cron" /\ pc = "cron_loop" /\ fieldnum = 0
    /\ previous_run_time = None /\ now.us > 0
    /\ next_time = CronInitial(sched, now, previous_run_time)
    /\ Instant(next_time) = Instant(now) + 1

\* a pass of the cron walk that calls _increment_field_value: the field has
\* no next value, or it is a virtual field whose next value is higher
IncrementCalled ==
    /\ pc = "cron_loop" /\ fieldnum >= 0 /\ fieldnum < Len(sched.fields)
    /\ \E next_value \in {FieldNextValue(FieldAt(sched.fields, fieldnum), next_time)} :
           \/ next_value = None
           \/ /\ next_value[1] > FieldValue(FieldAt(sched.fields, fieldnum), next_time)
              /\ ~FieldAt(sched.fields, fieldnum).real

\* the field _increment_field_value is asked to increment in that pass
IncrementTarget ==
    IF FieldNextValue(FieldAt(sched.fields, fieldnum), next_time) = None
    THEN fieldnum - 1 ELSE fieldnum

\* the real fields at or before index k that are below their maximum
CanIncrement(k) ==
    {i \in 0..k : /\ FieldAt(sched.fields, i).real
                  /\ FieldValue(FieldAt(sched.fields, i), next_time)
                         < FieldMax(FieldAt(sched.fields, i), next_time)}

\* C34: _increment_field_value(t, k) increments the nearest real field at or
\* to the left of k that is not at its maximum and returns its index; in the
\* resulting wall time that field is its old value + 1, every real field more
\* significant keeps its value and every less significant real field is at
\* its minimum.
C34_Increment ==
    [][(IncrementCalled /\ IncrementTarget >= 0 /\ pc' # "raised") =>
          /\ CanIncrement(IncrementTarget) # {}
          /\ \A i \in CanIncrement(IncrementTarget) : i <= fieldnum'
          /\ fieldnum' \in CanIncrement(IncrementTarget)
          /\ FieldValue(FieldAt(sched.fields, fieldnum'), next_time')
                 = FieldValue(FieldAt(sched.fields, fieldnum'), next_time) + 1
          /\ \A i \in 0..(fieldnum' - 1) : FieldAt(sched.fields, i).real =>
                 FieldValue(FieldAt(sched.fields, i), next_time')
                     = FieldValue(FieldAt(sched.fields, i), next_time)
          /\ \A i \in RealAfter(fieldnum') :
                 FieldValue(FieldAt(sched.fields, i), next_time')
                     = FieldMin(FieldAt(sched.fields, i), next_time')]_vars

\* the cron walk stands at a cursor
AtCursor == sched.kind = "cron" /\ pc = "cron_loop"

\* the next values of the expressions of a field at the cursor, None left out
ExpressionValues(field) ==
    {ExprNextValue(field.expressions[k], next_time, field) :
         k \in 1..Len(field.expressions)} \ {None}

\* C35: get_next_value of a field is the least of the next values of the
\* field's expressions, leaving out the expressions that have none, and null
\* exactly when no expression has one; the value is never below the field's
\* current value and lies within the field's minimum and maximum.
C35_FieldNextValue ==
    AtCursor =>
        \A k \in 1..Len(sched.fields) :
            \E field \in {sched.fields[k]} :
            \E v \in {FieldNextValue(field, next_time)} :
                /\ v = None <=> ExpressionValues(field) = {}
                /\ v # None =>
                       /\ v \in ExpressionValues(field)
                       /\ \A w \in ExpressionValues(field) : v[1] <= w[1]
                       /\ v[1] >= FieldValue(field, next_time)
                       /\ v[1] >= FieldMin(field, next_time)
                       /\ v[1] <= FieldMax(field, next_time)

\* a field with two expressions of which the second has the lower next value
C35_Witness ==
    /\ AtCursor
    /\ \E k \in 1..Len(sched.fields) :
           /\ Len(sched.fields[k].expressions) >= 2
           /\ Cardinality(ExpressionValues(sched.fields[k])) >= 2
           /\ FieldNextValue(sched.fields[k], next_time)
                  # ExprNextValue(sched.fields[k].expressions[1], next_time,
                                  sched.fields[k])

\* the least value a range or all expression allows from the field's current
\* value on, as the claim states it
EffectiveMin(e, field) ==
    IF e.type = "all" THEN FieldMin(field, next_time)
    ELSE Max(FieldMin(field, next_time), e.first)
EffectiveMax(e, field) ==
    IF e.type = "all" \/ e.last = None THEN FieldMax(field, next_time)
    ELSE Min(FieldMax(field, next_time), e.last[1])
EffectiveStep(e) == IF e.step = None THEN 1 ELSE e.step[1]

\* v is allowed by the expression: on the step grid that starts at the
\* effective minimum
OnStep(e, field, v) == (v - EffectiveMin(e, field)) % EffectiveStep(e) = 0

\* C36: get_next_value of an All or Range expression is the smallest v at or
\* above max(current, effective minimum) that is congruent to the effective
\* minimum modulo the step (1 when absent) and not above the effective
\* maximum, or null when there is none; a bare value n is the range n-n.
C36_AllAndRange ==
    /\ \A n \in 0..59 : RangeExpression(n, None, None) = RangeExpression(n, Some(n), None)
    /\ (sched = CronRangeStep /\ pc = "done") =>
           run_times = [i \in 1..7 |-> Berlin(2016, 3, 2 + 3 * i, 0, 0, 0)]
    /\ AtCursor =>
        \A k \in 1..Len(sched.fields) : \E field \in {sched.fields[k]} :
            \A j \in 1..Len(field.expressions) : \E e \in {field.expressions[j]} :
                e.type \in {"all", "range"} =>
                    \E v \in {ExprNextValue(e, next_time, field)} :
                    \E lo \in {Max(FieldValue(field, next_time), EffectiveMin(e, field))} :
                        /\ v # None =>
                               /\ v[1] >= lo
                               /\ v[1] <= EffectiveMax(e, field)
                               /\ OnStep(e, field, v[1])
                               /\ \A w \in lo..(v[1] - 1) : ~OnStep(e, field, w)
                        /\ v = None =>
                               \A w \in lo..EffectiveMax(e, field) : ~OnStep(e, field, w)

\* the cursor is between two values of a range with a step: day='5-24/3' on
\* day 6 gives 8
C36_Witness ==
    /\ AtCursor /\ sched = CronRangeStep
    /\ FieldValue(sched.fields[4], next_time) = 6
    /\ ExprNextValue(sched.fields[4].expressions[1], next_time, sched.fields[4]) = Some(8)

\* the days of the cursor's month that fall on the weekday
Occurrences(weekday) ==
    LET y == YearOf(next_time.naive)
        m == MonthOf(next_time.naive)
    IN  {d \in 1..DaysInMonth(y, m) : Weekday(ToOrdinal(y, m, d)) = weekday}

\* the day a weekday position stands for in the cursor's month: the n-th
\* occurrence for 1st..5th (option_num 0..4), the final one for last; the
\* empty set when the month has no such occurrence
TargetDays(e) ==
    {d \in Occurrences(e.weekday) :
        IF e.option_num < 5
        THEN Cardinality({o \in Occurrences(e.weekday) : o < d}) = e.option_num
        ELSE \A o \in Occurrences(e.weekday) : o <= d}

\* C37: a weekday position gives the day of the n-th occurrence of the
\* weekday in the cursor's month ('last': the final occurrence) when that day
\* exists and is not before the cursor's day, and null otherwise; '5th sun'
\* in July 2016 is the 31st, 'last mon' in February 2016 the 29th, '1st wed'
\* in September 2016 the 7th.
C37_WeekdayPosition ==
    /\ AtCursor =>
           \E field \in {sched.fields[4]} :
               \A j \in 1..Len(field.expressions) : \E e \in {field.expressions[j]} :
                   e.type = "weekdayposition" =>
                       \E v \in {ExprNextValue(e, next_time, field)} :
                           /\ v # None =>
                                  /\ v[1] \in TargetDays(e)
                                  /\ v[1] >= DayOf(next_time.naive)
                           /\ v = None =>
                                  \A d \in TargetDays(e) : d < DayOf(next_time.naive)
    /\ (CronReturnedTime /\ previous_run_time = None) =>
           /\ (sched = CronFifthSunday /\ now = Berlin(2016, 7, 1, 0, 0, 0)) =>
                  result = Some(Berlin(2016, 7, 31, 0, 0, 0))
           /\ (sched = CronLastMonday /\ now = Berlin(2016, 2, 1, 0, 0, 0)) =>
                  result = Some(Berlin(2016, 2, 29, 0, 0, 0))
           /\ (sched = CronFirstWednesday /\ now = Berlin(2016, 9, 1, 0, 0, 0)) =>
                  result = Some(Berlin(2016, 9, 7, 0, 0, 0))

\* a month without a fifth Sunday: the expression has no value
C37_Witness ==
    /\ AtCursor /\ sched = CronFifthSunday
    /\ TargetDays(sched.fields[4].expressions[1]) = {}
    /\ FieldNextValue(sched.fields[4], next_time) = None

\* midnight of the final day of the month m of the year y
FinalDay(y, m) == Berlin(y, m, DaysInMonth(y, m), 0, 0, 0)

\* a day='last' call has returned a time; the cursor its walk started from
LastDayReturned == CronReturnedTime /\ sched = CronLastDay
LastDayCursor == CronInitial(sched, now, previous_run_time)

\* the three pinned results of day='last'
LastDayVectors ==
    (LastDayReturned /\ previous_run_time = None) =>
        /\ now = Berlin(2016, 1, 1, 0, 0, 0) => result = Some(Berlin(2016, 1, 31, 0, 0, 0))
        /\ now = Berlin(2016, 2, 1, 0, 0, 0) => result = Some(Berlin(2016, 2, 29, 0, 0, 0))
        /\ now = Berlin(2016, 4, 1, 0, 0, 0) => result = Some(Berlin(2016, 4, 30, 0, 0, 0))

\* LastDayOfMonth always yields the length of the cursor's month
LastDayIsMonthLength ==
    (AtCursor /\ sched = CronLastDay) =>
        ExprNextValue(sched.fields[4].expressions[1], next_time, sched.fields[4])
            = Some(DaysInMonth(YearOf(next_time.naive), MonthOf(next_time.naive)))

\* C38 as stated: with day='last', from any cursor within a month the next
\* fire-time is on that month's final day (31 for January, 29 for February
\* 2016, 30 for April), LastDayOfMonth always yielding the length of the
\* cursor's month.
C38_LastDayOfCursorMonth ==
    /\ LastDayVectors
    /\ LastDayIsMonthLength
    /\ LastDayReturned =>
           result = Some(FinalDay(YearOf(LastDayCursor.naive), MonthOf(LastDayCursor.naive)))

\* C38 amended: with day='last' the fire-time is midnight of the final day
\* of the cursor's month when the cursor is not after that midnight, and
\* midnight of the final day of the following month when it is.
C38_LastDayFromCursor ==
    /\ LastDayVectors
    /\ LastDayIsMonthLength
    /\ LastDayReturned =>
           \E y \in {YearOf(LastDayCursor.naive)} : \E m \in {MonthOf(LastDayCursor.naive)} :
               result = Some(IF ~Before(FinalDay(y, m), LastDayCursor)
                             THEN FinalDay(y, m)
                             ELSE IF m = 12 THEN FinalDay(y + 1, 1)
                             ELSE FinalDay(y, m + 1))

\* a call from inside a month that returned the 29th of February 2016
C38_Witness ==
    /\ LastDayReturned
    /\ MonthOf(LastDayCursor.naive) = 2
    /\ result = Some(Berlin(2016, 2, 29, 0, 0, 0))

\* the decimal digits of 9223372036854775807 = 2^63 - 1 and of 2^63, the
\* least significant first
TwoTo63Less1 == <<7, 0, 8, 5, 7, 7, 4, 5, 8, 6, 3, 0, 2, 7, 3, 3, 2, 2, 9>>
TwoTo63      == <<8, 0, 8, 5, 7, 7, 4, 5, 8, 6, 3, 0, 2, 7, 3, 3, 2, 2, 9>>

\* the bounds of the fields other than the year's maximum; max 0 stands for
\* the length of the cursor's month
StatedBounds ==
    [year        |-> [min |-> 1970, max |-> YearMax],
     month       |-> [min |-> 1, max |-> 12],
     week        |-> [min |-> 1, max |-> 53],
     day         |-> [min |-> 1, max |-> 0],
     day_of_week |-> [min |-> 0, max |-> 6],
     hour        |-> [min |-> 0, max |-> 23],
     minute      |-> [min |-> 0, max |-> 59],
     second      |-> [min |-> 0, max |-> 59]]

\* get_min and get_max of every field at the cursor are the stated ones (the
\* year's maximum aside), and get_next_value stays within them; a year is a
\* year of a datetime, far below either candidate for the year's maximum
WithinStatedBounds ==
    AtCursor =>
        \A k \in 1..Len(sched.fields) : \E field \in {sched.fields[k]} :
            \E b \in {StatedBounds[field.name]} :
                /\ FieldMin(field, next_time) = b.min
                /\ FieldMax(field, next_time)
                       = (IF field.name = "day"
                          THEN DaysInMonth(YearOf(next_time.naive), MonthOf(next_time.naive))
                          ELSE b.max)
                /\ \E v \in {FieldNextValue(field, next_time)} :
                       v # None =>
                           /\ v[1] >= b.min
                           /\ v[1] <= FieldMax(field, next_time)
                           /\ field.name = "year" => v[1] <= 9999

CronConstructed == pc = "constructed" /\ sched.kind = "cron"

\* some cursors to compare next values at
SampleCursors ==
    {Berlin(2016, 2, 1, 0, 0, 0), Berlin(2016, 7, 20, 3, 31, 0),
     Berlin(2016, 12, 31, 23, 59, 59)}

\* C40: for every expression the parser accepted, parsing str(expr) in the
\* same field succeeds and yields an expression equal to expr, with the same
\* get_next_value results.
C40_ExpressionRoundTrip ==
    CronConstructed =>
        \A k \in 1..Len(sched.fields) : \E field \in {sched.fields[k]} :
            \A j \in 1..Len(field.expressions) : \E e \in {field.expressions[j]} :
                \E text \in {ExprStr(e)} :
                    /\ CompileError(field.name, text) = NoError
                    /\ compile_expression(field.name, text) = e
                    /\ \A t \in SampleCursors :
                           ExprNextValue(compile_expression(field.name, text), t, field)
                               = ExprNextValue(e, t, field)

====
